---------------------------- MODULE Spec2Model ----------------------------
(***************************************************************************)
(* A model of the conversation directory of pure-converse: the tables of   *)
(* the Supabase schema (friend_requests, conversations,                    *)
(* conversation_participants, messages, message_reactions, typing_status), *)
(* the SECURITY DEFINER functions that maintain them                       *)
(* (create_friend_conversation, create_group_conversation,                 *)
(* kick_group_member, delete_group_conversation, remove_friend), the       *)
(* client handlers that call them, and the row operations the row-level    *)
(* policies leave open to an authenticated client.                         *)
(*                                                                         *)
(* A function call is one transaction: an exception rolls every write of   *)
(* the call back, so a failed call changes no table.  Only                 *)
(* create_friend_conversation is also modelled statement by statement      *)
(* (READ COMMITTED: every statement reads the rows committed so far), for  *)
(* the calls two clients issue at the same time.                           *)
(***************************************************************************)
EXTENDS Integers, Sequences, FiniteSets, TLC

VARIABLES
    profiles,                   \* public.profiles: the ids of the registered users
    friend_requests,            \* public.friend_requests: [sender_id, receiver_id, status]
    conversations,              \* public.conversations: id -> [type, name, created_by]
    nextConv,                   \* the next id gen_random_uuid() hands to a conversation
    conversation_participants,  \* public.conversation_participants: [conversation_id, user_id]
    messages,                   \* public.messages: id -> [conversation_id, sender_id, reply_to, edited_at]
    nextMsg,                    \* the next id gen_random_uuid() hands to a message
    message_reactions,          \* public.message_reactions: [message_id, user_id, emoji]
    typing_status,              \* public.typing_status: [user_id, conversation_id]
    ui,                         \* ChatInterface state per signed-in user: [selectedConversation, replyingTo]
    newMessage,                 \* ChatInterface state per user: the text of the message input
    convList,                   \* ChatInterface state per user: conversation id -> the ids of its listed messages
    inflight,                   \* per user: the responses of fetchConversations not yet delivered
    typer,                      \* per user: isTyping, typingTimeout, the armed timers, the typing requests sent
    calls,                      \* public.calls: id -> the call's row
    call_participants,          \* public.call_participants: [call_id, user_id, left_at]
    callUi,                     \* call state per signed-in user: [incomingCall, activeCall, participants]
    now,                        \* the time new Date() and NOW() read
    rpc,                        \* create_friend_conversation calls in flight, per connection
    audit,                      \* history: the last ledger call, its arguments and the ledger it found
    returned,                   \* history: [pair, id] for every id create_friend_conversation returned
    last                        \* the call that made the last step, and its outcome

vars == <<profiles, friend_requests, conversations, nextConv,
          conversation_participants, messages, nextMsg, message_reactions,
          typing_status, ui, newMessage, convList, inflight, typer, calls, call_participants, callUi, now, rpc, audit,
          returned, last>>

ledgerVars == <<friend_requests>>
clientVars == <<ui, newMessage, convList, inflight, typer>>
callVars == <<calls, call_participants, callUi, now>>
convVars == <<conversations, nextConv, conversation_participants>>
msgVars == <<messages, nextMsg, message_reactions>>

-----------------------------------------------------------------------------
(* Bounds of the model *)

MaxConvs == 2       \* conversations ever created in one behaviour
MaxMsgs == 2        \* messages ever sent in one behaviour
NumProcs == 3       \* connections that call create_friend_conversation at once
MaxReactions == 1   \* reaction rows stored at a time
Limit == 1          \* rows a message query returns, for .limit(50)
MaxTyping == 1      \* typing rows stored at a time

(* Program constants *)

MaxFriends == 5     \* create_group_conversation: 'Maximum 5 friends allowed'

Users == {"u1", "u2", "u3", "u4", "u5", "u6"}
Three == {"u1", "u2", "u3"}
Procs == 1..NumProcs
ConvIds == 1..MaxConvs
NULL == 0           \* SQL NULL in a uuid column or variable

(* The outcome of a call: ok with a value, or the exception it raised. *)
Ok(op, args, v) == [op |-> op, args |-> args, ok |-> TRUE, val |-> v, err |-> ""]
Raise(op, args, e) == [op |-> op, args |-> args, ok |-> FALSE, val |-> NULL, err |-> e]
NoCall == [op |-> "none", args |-> <<>>, ok |-> TRUE, val |-> NULL, err |-> ""]

(* The tables as the call found them, kept with the outcome of a call of a
   directory function. *)
Snap ==
    [friend_requests |-> friend_requests,
     conversations |-> conversations,
     conversation_participants |-> conversation_participants,
     messages |-> messages,
     message_reactions |-> message_reactions,
     typing_status |-> typing_status,
     newMessage |-> newMessage,
     convList |-> convList,
     calls |-> calls,
     call_participants |-> call_participants,
     returned |-> returned]

Did(outcome) == outcome @@ [before |-> Snap]

-----------------------------------------------------------------------------
(* Friendship ledger.  The ledger's handlers leave their arguments out of
   `last`; a specification that needs them keeps them in `audit`. *)

Between(a, b) ==
    {r \in friend_requests :
        \/ (r.sender_id = a /\ r.receiver_id = b)
        \/ (r.sender_id = b /\ r.receiver_id = a)}

(* A wrong variant of AreFriends, for comparison: the status test lets a pending request through. *)
AreFriendsPendingToo(current_user_id, friend_id) ==
    \E r \in Between(current_user_id, friend_id) : r.status \in {"accepted", "pending"}

(* EXISTS (SELECT 1 FROM friend_requests WHERE status = 'accepted' AND
   ((sender_id = current_user_id AND receiver_id = friend_id) OR
    (sender_id = friend_id AND receiver_id = current_user_id))) *)
AreFriends(current_user_id, friend_id) ==
    \E r \in Between(current_user_id, friend_id) : r.status = "accepted"

(* AddFriend.sendFriendRequest: refuses oneself and a pair that already has a
   request row in either direction, whatever its status; otherwise inserts a
   pending row owned by the sender. *)
sendFriendRequest(user, targetUser) ==
    /\ user \in profiles /\ targetUser \in profiles
    /\ IF targetUser = user
       THEN /\ last' = Raise("sendFriendRequest", <<>>,
                             "You cannot add yourself as a friend.")
            /\ UNCHANGED friend_requests
       ELSE IF Cardinality(Between(user, targetUser)) = 1
       THEN /\ last' = Raise("sendFriendRequest", <<>>, "Request exists")
            /\ UNCHANGED friend_requests
       ELSE IF \E r \in friend_requests :
                   r.sender_id = user /\ r.receiver_id = targetUser
       THEN /\ last' = Raise("sendFriendRequest", <<>>,
                             "Failed to send friend request")
            /\ UNCHANGED friend_requests
       ELSE /\ friend_requests' = friend_requests \cup
                   {[sender_id |-> user, receiver_id |-> targetUser, status |-> "pending"]}
            /\ last' = Ok("sendFriendRequest", <<>>, NULL)
    /\ UNCHANGED <<profiles, clientVars, callVars, convVars, msgVars, typing_status, rpc, returned>>

(* PendingRequests.handleRequest, offered for the pending requests the user
   received; the UPDATE policy lets through only the receiver's rows. *)
handleRequest(user, request, action) ==
    /\ request \in friend_requests
    /\ request.receiver_id = user
    /\ request.status = "pending"
    /\ friend_requests' = (friend_requests \ {request}) \cup
           {[request EXCEPT !.status = IF action = "accept" THEN "accepted" ELSE "rejected"]}
    /\ last' = Ok("handleRequest", <<>>, NULL)
    /\ UNCHANGED <<profiles, clientVars, callVars, convVars, msgVars, typing_status, rpc, returned>>

(* A wrong variant of AcceptedBetween, for comparison: the status is not
   looked at. *)
AnyBetween(current_user_id, friend_id) == Between(current_user_id, friend_id)

(* WHERE status = 'accepted' AND ((sender_id = current_user_id AND receiver_id
   = friend_id) OR (sender_id = friend_id AND receiver_id = current_user_id)) *)
AcceptedBetween(current_user_id, friend_id) ==
    {r \in Between(current_user_id, friend_id) : r.status = "accepted"}

(* remove_friend(friend_id): deletes the accepted rows of the pair, returns TRUE. *)
remove_friend(current_user_id, friend_id) ==
    /\ current_user_id \in profiles /\ friend_id \in profiles
    /\ friend_requests' = friend_requests \ AcceptedBetween(current_user_id, friend_id)
    /\ last' = Ok("remove_friend", <<>>, NULL)
    /\ UNCHANGED <<profiles, clientVars, callVars, convVars, msgVars, typing_status, rpc, returned>>

-----------------------------------------------------------------------------
(* Conversation directory: create_friend_conversation *)

Participants(c) ==
    {p.user_id : p \in {q \in conversation_participants : q.conversation_id = c}}

Row(c, u) == [conversation_id |-> c, user_id |-> u]

(* A wrong variant of ExistingDirect, for comparison: the lookup finds only the conversations the
   caller created. *)
DirectOfCreator(current_user_id, friend_id) ==
    {c \in DOMAIN conversations :
        /\ conversations[c].type = "direct"
        /\ conversations[c].created_by = current_user_id
        /\ Row(c, friend_id) \in conversation_participants}

(* SELECT c.id FROM conversations c WHERE c.type = 'direct' AND c.id IN
   (conversations of current_user_id INTERSECT conversations of friend_id) *)
ExistingDirect(current_user_id, friend_id) ==
    {c \in DOMAIN conversations :
        /\ conversations[c].type = "direct"
        /\ Row(c, current_user_id) \in conversation_participants
        /\ Row(c, friend_id) \in conversation_participants}

(* SELECT ... INTO conversation_id: the first row the query yields, NULL when
   it yields none.  The query has no ORDER BY, so with several rows any of
   them may come first. *)
SelectInto(rows) == IF rows = {} THEN {NULL} ELSE rows

Pair(a, b) == {a, b}

(* The statements after the lookup: with conversation_id NULL the INSERT of
   the conversation and of both participant rows, then RETURN.  The two
   participant rows are one INSERT; UNIQUE(conversation_id, user_id) rejects
   it when both name the same user, and the exception undoes the call. *)
InsertOrReturn(current_user_id, friend_id, conversation_id) ==
    LET args == <<current_user_id, friend_id>> IN
    IF conversation_id # NULL
    THEN /\ last' = Did(Ok("create_friend_conversation", args, conversation_id))
         /\ returned' = returned \cup
                {[pair |-> Pair(current_user_id, friend_id), id |-> conversation_id]}
         /\ UNCHANGED convVars
    ELSE IF current_user_id = friend_id
    THEN /\ last' = Did(Raise("create_friend_conversation", args, "duplicate key"))
         /\ UNCHANGED <<convVars, returned>>
    ELSE /\ nextConv <= MaxConvs
         /\ conversations' = (nextConv :> [type |-> "direct", name |-> <<>>,
                                           created_by |-> current_user_id])
                             @@ conversations
         /\ conversation_participants' = conversation_participants \cup
                {Row(nextConv, current_user_id), Row(nextConv, friend_id)}
         /\ nextConv' = nextConv + 1
         /\ last' = Did(Ok("create_friend_conversation", args, nextConv))
         /\ returned' = returned \cup
                {[pair |-> Pair(current_user_id, friend_id), id |-> nextConv]}

(* create_friend_conversation(friend_id) as one uninterrupted transaction. *)
create_friend_conversation(current_user_id, friend_id) ==
    /\ current_user_id \in profiles /\ friend_id \in profiles
    /\ IF ~AreFriends(current_user_id, friend_id)
       THEN /\ last' = Did(Raise("create_friend_conversation",
                                 <<current_user_id, friend_id>>, "Users are not friends"))
            /\ UNCHANGED <<convVars, returned>>
       ELSE \E conversation_id \in SelectInto(ExistingDirect(current_user_id, friend_id)) :
                InsertOrReturn(current_user_id, friend_id, conversation_id)
    /\ UNCHANGED <<profiles, audit, clientVars, callVars, ledgerVars, msgVars, typing_status, rpc>>

-----------------------------------------------------------------------------
(* Conversation directory: create_group_conversation *)

(* A text value is the sequence of its characters. *)
Chars == {" ", "\t", "g"}
Whitespace == {" ", "\t"}

RECURSIVE LTrim(_)
LTrim(s) == IF s # << >> /\ Head(s) = " " THEN LTrim(Tail(s)) ELSE s

RECURSIVE RTrim(_)
RTrim(s) == IF s # << >> /\ s[Len(s)] = " " THEN RTrim(SubSeq(s, 1, Len(s) - 1)) ELSE s

(* trim(text): PostgreSQL removes the longest string of spaces, and of no
   other character, from both ends. *)
trim(s) == RTrim(LTrim(s))

Range(f) == {f[i] : i \in DOMAIN f}

(* A wrong variant of Strangers, for comparison: only the first listed id is looked up. *)
StrangersHeadOnly(current_user_id, friend_ids) ==
    IF friend_ids # << >> /\ ~AreFriends(current_user_id, friend_ids[1])
    THEN {1} ELSE {}

(* FOR friend_id IN SELECT unnest(friend_ids) LOOP IF NOT EXISTS (an accepted
   request) THEN RAISE: the positions of the listed ids that are not friends. *)
Strangers(current_user_id, friend_ids) ==
    {i \in DOMAIN friend_ids : ~AreFriends(current_user_id, friend_ids[i])}

(* The participant INSERTs of the creator and then of each listed id meet
   UNIQUE(conversation_id, user_id) when an id is listed twice or is the
   creator's own. *)
UniqueViolation(current_user_id, friend_ids) ==
    \/ current_user_id \in Range(friend_ids)
    \/ Cardinality(Range(friend_ids)) # Len(friend_ids)

(* INSERT INTO conversation_participants ... VALUES (conversation_id, id), one
   statement per id in list order: the rows stored when the statements stop,
   at the first id whose row is already there or at the end of the list. *)
RECURSIVE InsertEach(_, _, _)
InsertEach(rows, c, ids) ==
    IF ids = << >> \/ Row(c, Head(ids)) \in rows
    THEN rows
    ELSE InsertEach(rows \cup {Row(c, Head(ids))}, c, Tail(ids))

(* What the statements of lines 45-58 have written when the call stops: the
   conversation row, the creator's row and the rows of the listed ids up to
   the first duplicate. *)
WrittenBeforeStop(current_user_id, group_name_param, friend_ids) ==
    [conversations |->
         (nextConv :> [type |-> "group", name |-> trim(group_name_param),
                       created_by |-> current_user_id]) @@ conversations,
     conversation_participants |->
         InsertEach(conversation_participants \cup {Row(nextConv, current_user_id)},
                    nextConv, friend_ids)]

(* A wrong variant of Rollback, for comparison: the writes made before the
   exception stay. *)
KeepWritten(found, written) == written

(* The function has no EXCEPTION block and the call is one transaction: an
   exception leaves the tables as the call found them. *)
Rollback(found, written) == found

create_group_conversation(current_user_id, group_name_param, friend_ids) ==
    LET op == "create_group_conversation"
        args == <<current_user_id, group_name_param, friend_ids>>
        written == WrittenBeforeStop(current_user_id, group_name_param, friend_ids)
    IN
    /\ current_user_id \in profiles
    /\ Range(friend_ids) \subseteq profiles
    /\ IF trim(group_name_param) = << >>
       THEN /\ last' = Did(Raise(op, args, "Group name cannot be empty"))
            /\ UNCHANGED convVars
       ELSE IF Len(friend_ids) = 0
       THEN /\ last' = Did(Raise(op, args, "At least one friend must be selected"))
            /\ UNCHANGED convVars
       ELSE IF Len(friend_ids) > MaxFriends
       THEN /\ last' = Did(Raise(op, args, "Maximum 5 friends allowed"))
            /\ UNCHANGED convVars
       ELSE IF Strangers(current_user_id, friend_ids) # {}
       THEN /\ last' = Did(Raise(op, args, "Selected user is not a friend"))
            /\ UNCHANGED convVars
       ELSE IF UniqueViolation(current_user_id, friend_ids)
       THEN /\ last' = Did(Raise(op, args, "duplicate key"))
            /\ conversations' = Rollback(conversations, written.conversations)
            /\ conversation_participants' =
                   Rollback(conversation_participants, written.conversation_participants)
            /\ UNCHANGED nextConv
       ELSE /\ nextConv <= MaxConvs
            /\ conversations' = (nextConv :> [type |-> "group",
                                              name |-> trim(group_name_param),
                                              created_by |-> current_user_id])
                                @@ conversations
            /\ conversation_participants' = conversation_participants \cup
                   {Row(nextConv, u) : u \in {current_user_id} \cup Range(friend_ids)}
            /\ nextConv' = nextConv + 1
            /\ last' = Did(Ok(op, args, nextConv))
    /\ UNCHANGED <<profiles, audit, clientVars, callVars, ledgerVars, msgVars, typing_status, rpc, returned>>

-----------------------------------------------------------------------------
(* Conversation directory: kick_group_member, delete_group_conversation *)

(* SELECT (created_by = current_user_id) INTO is_group_creator FROM
   conversations WHERE id = conversation_id_param AND type = 'group':
   true or false for a group, NULL when no row is selected. *)
is_group_creator(current_user_id, conversation_id_param) ==
    IF /\ conversation_id_param \in DOMAIN conversations
       /\ conversations[conversation_id_param].type = "group"
    THEN IF conversations[conversation_id_param].created_by = current_user_id
         THEN "true" ELSE "false"
    ELSE "null"

(* IF NOT is_group_creator THEN RAISE: NOT NULL is NULL, and IF takes a NULL
   condition as not met, so only false raises. *)
NotCreatorRaises(flag) == flag = "false"

(* A wrong variant of KicksSelf, for comparison: the creator may name themself. *)
KicksNobody(member_id_param, current_user_id) == FALSE

(* IF member_id_param = current_user_id THEN RAISE *)
KicksSelf(member_id_param, current_user_id) == member_id_param = current_user_id

kick_group_member(current_user_id, conversation_id_param, member_id_param) ==
    LET op == "kick_group_member"
        args == <<current_user_id, conversation_id_param, member_id_param>>
    IN
    /\ current_user_id \in profiles /\ member_id_param \in profiles
    /\ IF NotCreatorRaises(is_group_creator(current_user_id, conversation_id_param))
       THEN /\ last' = Did(Raise(op, args, "Only group creator can kick members"))
            /\ UNCHANGED conversation_participants
       ELSE IF KicksSelf(member_id_param, current_user_id)
       THEN /\ last' = Did(Raise(op, args, "Group creator cannot kick themselves"))
            /\ UNCHANGED conversation_participants
       ELSE /\ conversation_participants' = conversation_participants \
                   {Row(conversation_id_param, member_id_param)}
            /\ last' = Did(Ok(op, args, NULL))
    /\ UNCHANGED <<profiles, audit, clientVars, callVars, ledgerVars, conversations, nextConv, msgVars,
                   typing_status, rpc, returned>>

MessagesOf(c) == {m \in DOMAIN messages : messages[m].conversation_id = c}

(* messages.reply_to REFERENCES messages(id), with no ON DELETE action: the
   DELETE of a conversation's messages is refused while a message that stays
   replies to one of them. *)
ReplyFromOutside(c) ==
    \E m \in DOMAIN messages \ MessagesOf(c) : messages[m].reply_to \in MessagesOf(c)

Restrict(f, S) == [x \in S |-> f[x]]

delete_group_conversation(current_user_id, conversation_id_param) ==
    LET op == "delete_group_conversation"
        args == <<current_user_id, conversation_id_param>>
        gone == MessagesOf(conversation_id_param)
    IN
    /\ current_user_id \in profiles
    /\ IF NotCreatorRaises(is_group_creator(current_user_id, conversation_id_param))
       THEN /\ last' = Did(Raise(op, args, "Only group creator can delete the group"))
            /\ UNCHANGED <<conversations, conversation_participants, messages,
                           message_reactions>>
       ELSE IF ReplyFromOutside(conversation_id_param)
       THEN /\ last' = Did(Raise(op, args, "foreign key violation"))
            /\ UNCHANGED <<conversations, conversation_participants, messages,
                           message_reactions>>
       ELSE /\ conversation_participants' =
                   {p \in conversation_participants :
                       p.conversation_id # conversation_id_param}
            /\ messages' = Restrict(messages, DOMAIN messages \ gone)
            /\ message_reactions' =
                   {r \in message_reactions : r.message_id \notin gone}
            /\ conversations' =
                   Restrict(conversations, DOMAIN conversations \ {conversation_id_param})
            /\ last' = Did(Ok(op, args, NULL))
    /\ UNCHANGED <<profiles, audit, clientVars, callVars, ledgerVars, nextConv, nextMsg, typing_status, rpc, returned>>

-----------------------------------------------------------------------------
(* Rows a client writes directly, as far as the row-level policies allow *)

(* "Users can create conversations": INSERT WITH CHECK (auth.uid() = created_by). *)
InsertConversation(user, type) ==
    /\ user \in profiles
    /\ nextConv <= MaxConvs
    /\ conversations' = (nextConv :> [type |-> type, name |-> << >>, created_by |-> user])
                        @@ conversations
    /\ nextConv' = nextConv + 1
    /\ last' = Ok("insert conversations", << >>, NULL)
    /\ UNCHANGED <<profiles, audit, clientVars, callVars, ledgerVars, conversation_participants, msgVars,
                   typing_status, rpc, returned>>

(* "Users can join conversations": INSERT WITH CHECK (auth.uid() = user_id);
   the row needs an existing conversation and is unique per (conversation, user). *)
InsertParticipant(user, c) ==
    /\ user \in profiles
    /\ c \in DOMAIN conversations
    /\ Row(c, user) \notin conversation_participants
    /\ conversation_participants' = conversation_participants \cup {Row(c, user)}
    /\ last' = Ok("insert conversation_participants", << >>, NULL)
    /\ UNCHANGED <<profiles, audit, clientVars, callVars, ledgerVars, conversations, nextConv, msgVars,
                   typing_status, rpc, returned>>

(* "Users can send messages to their conversations": INSERT WITH CHECK
   (auth.uid() = sender_id AND the conversation is one of the sender's);
   reply_to is NULL or the id of any stored message. *)
InsertMessage(user, c, reply_to) ==
    /\ user \in profiles
    /\ c \in DOMAIN conversations
    /\ Row(c, user) \in conversation_participants
    /\ reply_to \in DOMAIN messages \cup {NULL}
    /\ nextMsg <= MaxMsgs
    /\ messages' = (nextMsg :> [conversation_id |-> c, sender_id |-> user,
                                reply_to |-> reply_to, edited_at |-> NULL]) @@ messages
    /\ nextMsg' = nextMsg + 1
    /\ last' = Ok("insert messages", << >>, NULL)
    /\ UNCHANGED <<profiles, audit, clientVars, callVars, ledgerVars, convVars, message_reactions,
                   typing_status, rpc, returned>>

Emojis == {"+1", "-1"}

(* MessageDisplay.addReaction, for a reaction the user does not hold yet:
   "Users can add reactions to messages in their conversations". *)
InsertReaction(user, m, emoji) ==
    /\ user \in profiles
    /\ m \in DOMAIN messages
    /\ Row(messages[m].conversation_id, user) \in conversation_participants
    /\ [message_id |-> m, user_id |-> user, emoji |-> emoji] \notin message_reactions
    /\ Cardinality(message_reactions) < MaxReactions
    /\ message_reactions' = message_reactions \cup
           {[message_id |-> m, user_id |-> user, emoji |-> emoji]}
    /\ last' = Ok("insert message_reactions", << >>, NULL)
    /\ UNCHANGED <<profiles, audit, clientVars, callVars, ledgerVars, convVars, messages, nextMsg,
                   typing_status, rpc, returned>>

(* ChatInterface.handleTyping, first keystroke: the typing_status row of the
   user in the selected conversation, one of the user's conversations. *)
handleTyping(user, selectedConversation) ==
    /\ user \in profiles
    /\ Row(selectedConversation, user) \in conversation_participants
    /\ [user_id |-> user, conversation_id |-> selectedConversation] \notin typing_status
    /\ Cardinality(typing_status) < MaxTyping
    /\ typing_status' = typing_status \cup
           {[user_id |-> user, conversation_id |-> selectedConversation]}
    /\ last' = Ok("handleTyping", << >>, NULL)
    /\ UNCHANGED <<profiles, audit, clientVars, callVars, ledgerVars, convVars, msgVars, rpc, returned>>

(* ChatInterface.stopTyping: DELETE of the user's row for the conversation. *)
stopTyping(user, selectedConversation) ==
    /\ [user_id |-> user, conversation_id |-> selectedConversation] \in typing_status
    /\ typing_status' = typing_status \
           {[user_id |-> user, conversation_id |-> selectedConversation]}
    /\ last' = Ok("stopTyping", << >>, NULL)
    /\ UNCHANGED <<profiles, audit, clientVars, callVars, ledgerVars, convVars, msgVars, rpc, returned>>

-----------------------------------------------------------------------------
(* create_friend_conversation, statement by statement.  Each connection runs
   one call; its transaction's rows are committed when the function returns,
   which is the step that writes them here. *)

Idle == [pc |-> "idle", caller |-> "", friend |-> "", found |-> NULL,
         ok |-> FALSE, val |-> NULL]

(* The client sends the call: FriendsList.startChatWithFriend. *)
startChatWithFriend(p, user, friendId) ==
    /\ rpc[p].pc = "idle"
    /\ user \in profiles /\ friendId \in profiles
    /\ rpc' = [rpc EXCEPT ![p] = [Idle EXCEPT !.pc = "validate", !.caller = user,
                                              !.friend = friendId]]
    /\ last' = NoCall
    /\ UNCHANGED <<profiles, audit, clientVars, callVars, ledgerVars, convVars, msgVars, typing_status, returned>>

(* IF NOT EXISTS (an accepted request) THEN RAISE 'Users are not friends' *)
ValidateFriends(p) ==
    /\ rpc[p].pc = "validate"
    /\ IF AreFriends(rpc[p].caller, rpc[p].friend)
       THEN /\ rpc' = [rpc EXCEPT ![p].pc = "lookup"]
            /\ last' = NoCall
       ELSE /\ rpc' = [rpc EXCEPT ![p].pc = "done"]
            /\ last' = Did(Raise("create_friend_conversation",
                                 <<rpc[p].caller, rpc[p].friend>>, "Users are not friends"))
    /\ UNCHANGED <<profiles, audit, clientVars, callVars, ledgerVars, convVars, msgVars, typing_status, returned>>

(* SELECT c.id INTO conversation_id ...: reads the committed rows. *)
LookupExisting(p) ==
    /\ rpc[p].pc = "lookup"
    /\ \E conversation_id \in SelectInto(ExistingDirect(rpc[p].caller, rpc[p].friend)) :
           rpc' = [rpc EXCEPT ![p].pc = "insert", ![p].found = conversation_id]
    /\ last' = NoCall
    /\ UNCHANGED <<profiles, audit, clientVars, callVars, ledgerVars, convVars, msgVars, typing_status, returned>>

(* IF conversation_id IS NULL THEN INSERT ... END IF; RETURN conversation_id *)
InsertAndReturn(p) ==
    /\ rpc[p].pc = "insert"
    /\ InsertOrReturn(rpc[p].caller, rpc[p].friend, rpc[p].found)
    /\ rpc' = [rpc EXCEPT ![p].pc = "done", ![p].ok = last'.ok, ![p].val = last'.val]
    /\ UNCHANGED <<profiles, audit, clientVars, callVars, ledgerVars, msgVars, typing_status>>

-----------------------------------------------------------------------------
(* Specifications *)

(* useState(null) for selectedConversation and for replyingTo, in every
   user's ChatInterface. *)
NoSelection == [u \in Users |-> [selectedConversation |-> NULL, replyingTo |-> NULL]]

(* useState('') for newMessage and useState([]) for conversations; no
   fetchConversations call has been made. *)
NoText == [u \in Users |-> << >>]
NoList == [u \in Users |-> << >>]
NoFetch == [u \in Users |-> {}]

(* useState(false) for isTyping and useState(null) for typingTimeout; no
   timer is armed and no typing request is on its way; the input has not
   been used. *)
NotTyping == [isTyping |-> FALSE, typingTimeout |-> NULL, timers |-> {}, nextTimer |-> 1,
              upserts |-> 0, deletes |-> 0, lastKey |-> NULL, focus |-> FALSE,
              crashed |-> FALSE]
NoTyping == [u \in Users |-> NotTyping]

(* useState(null) for incomingCall and for activeCall in ChatInterface, and
   useState([]) for the participants and useState(false) for isMuted and
   isVideoEnabled of CallInterface, which is mounted while activeCall is set. *)
Unmounted == [activeCall |-> NULL, participants |-> {}, isMuted |-> FALSE,
              isVideoEnabled |-> FALSE]
NoCallUi == [u \in Users |-> [incomingCall |-> NULL] @@ Unmounted]

EmptyTables ==
    /\ conversations = << >>
    /\ nextConv = 1
    /\ conversation_participants = {}
    /\ messages = << >>
    /\ nextMsg = 1
    /\ message_reactions = {}
    /\ typing_status = {}
    /\ ui = NoSelection
    /\ newMessage = NoText
    /\ convList = NoList
    /\ inflight = NoFetch
    /\ typer = NoTyping
    /\ calls = << >>
    /\ call_participants = {}
    /\ callUi = NoCallUi
    /\ now = 1
    /\ rpc = [p \in Procs |-> Idle]
    /\ audit = NoCall
    /\ returned = {}
    /\ last = NoCall

(* The inputs of create_group_conversation. *)
RECURSIVE SeqsUpTo(_, _)
SeqsUpTo(S, n) ==
    IF n = 0 THEN {<< >>}
    ELSE LET shorter == SeqsUpTo(S, n - 1)
         IN  shorter \cup {Append(q, x) : q \in {r \in shorter : Len(r) = n - 1}, x \in S}

GroupNames == {<< >>, <<" ">>, <<"\t">>, <<"g">>, <<" ", "g", " ">>}

(* The empty list, every list of one id, every list of two ids of u1..u3,
   and the lists u2, u3, ... of every length up to one more than the function
   allows (the longest names u2 twice). *)
LongList == <<"u2", "u3", "u4", "u5", "u6", "u2">>
FriendIdLists ==
    SeqsUpTo(Users, 1) \cup SeqsUpTo(Three, 2) \cup
    {SubSeq(LongList, 1, n) : n \in 1..(MaxFriends + 1)}

Request(s, r, status) == [sender_id |-> s, receiver_id |-> r, status |-> status]

(* The directory: three users, u1 and u2 friends, a request from u3 to u1
   still pending; every directory function, and the conversation and
   participant rows the policies let a client write itself. *)
Init ==
    /\ profiles = Three
    /\ friend_requests = {Request("u1", "u2", "accepted"), Request("u3", "u1", "pending")}
    /\ EmptyTables

Next ==
    \/ \E u \in Three, f \in Three : create_friend_conversation(u, f)
    \/ \E u \in Three, ids \in SeqsUpTo(Three, 1) \ {<< >>} :
           create_group_conversation(u, <<"g">>, ids)
    \/ \E u \in Three, c \in ConvIds, m \in Three : kick_group_member(u, c, m)
    \/ \E u \in Three, c \in ConvIds : delete_group_conversation(u, c)
    \/ \E u \in Three, t \in {"direct", "group"} : InsertConversation(u, t)
    \/ \E u \in Three, c \in ConvIds : InsertParticipant(u, c)

Spec == Init /\ [][Next]_vars

(* Messages: two friends with the direct conversation that
   create_friend_conversation made for them (1) and a group that u1 made with
   u2 (2); the messages, reactions and typing rows in those conversations,
   and the two administrative functions. *)
Two == {"u1", "u2"}

InitMessages ==
    /\ profiles = Two
    /\ friend_requests = {Request("u1", "u2", "accepted")}
    /\ conversations = (1 :> [type |-> "direct", name |-> << >>, created_by |-> "u1"])
                       @@ (2 :> [type |-> "group", name |-> <<"g">>, created_by |-> "u1"])
    /\ nextConv = 3
    /\ conversation_participants = {Row(c, u) : c \in {1, 2}, u \in Two}
    /\ messages = << >>
    /\ nextMsg = 1
    /\ message_reactions = {}
    /\ typing_status = {}
    /\ ui = NoSelection
    /\ newMessage = NoText
    /\ convList = NoList
    /\ inflight = NoFetch
    /\ typer = NoTyping
    /\ calls = << >>
    /\ call_participants = {}
    /\ callUi = NoCallUi
    /\ now = 1
    /\ rpc = [p \in Procs |-> Idle]
    /\ audit = NoCall
    /\ returned = {[pair |-> Two, id |-> 1]}
    /\ last = NoCall

NextMessages ==
    \/ \E u \in Two, c \in 1..2, m \in Two : kick_group_member(u, c, m)
    \/ \E u \in Two, c \in 1..2 : delete_group_conversation(u, c)
    \/ \E u \in Two, c \in 1..2, r \in 0..MaxMsgs : InsertMessage(u, c, r)
    \/ \E u \in Two, m \in 1..MaxMsgs, e \in Emojis : InsertReaction(u, m, e)
    \/ \E u \in Two, c \in 1..2 : handleTyping(u, c)
    \/ \E u \in Two, c \in 1..2 : stopTyping(u, c)

SpecMessages == InitMessages /\ [][NextMessages]_vars

(* Groups: six users.  u1 has accepted requests with the first k of u2..u6,
   sent alternately by u1 and by the friend, then a pending request to the
   next user and a rejected one from the user after; every k is an initial
   state.  create_group_conversation called by u1 or u2 with every name and
   list of the input sets while no conversation is stored (one group at a
   time), kick_group_member and delete_group_conversation. *)
FriendLedger(k) ==
    {Request(IF i % 2 = 1 THEN "u1" ELSE LongList[i],
             IF i % 2 = 1 THEN LongList[i] ELSE "u1", "accepted") : i \in 1..k}
    \cup {Request("u1", LongList[i], "pending") : i \in {k + 1} \cap 1..MaxFriends}
    \cup {Request(LongList[i], "u1", "rejected") : i \in {k + 2} \cap 1..MaxFriends}

InitGroup ==
    /\ profiles = Users
    /\ \E k \in 0..MaxFriends : friend_requests = FriendLedger(k)
    /\ EmptyTables

NextGroup ==
    \/ \E u \in Two, n \in GroupNames, ids \in FriendIdLists :
           conversations = << >> /\ create_group_conversation(u, n, ids)
    \/ \E u \in Users, c \in ConvIds, m \in Users : kick_group_member(u, c, m)
    \/ \E u \in Users, c \in ConvIds : delete_group_conversation(u, c)

SpecGroup == InitGroup /\ [][NextGroup]_vars

(* Race: two friends, and connections that run create_friend_conversation
   statement by statement, interleaved in every way. *)
InitRace ==
    /\ profiles = Two
    /\ friend_requests = {Request("u1", "u2", "accepted")}
    /\ EmptyTables

NextRace ==
    \/ \E p \in Procs, u \in Two, f \in Two :
           u # f /\ startChatWithFriend(p, u, f)
    \/ \E p \in Procs : ValidateFriends(p)
    \/ \E p \in Procs : LookupExisting(p)
    \/ \E p \in Procs : InsertAndReturn(p)

SpecRace == InitRace /\ [][NextRace]_vars

(* Friends: three users, the friendship ledger and direct conversations. *)
InitFriends ==
    /\ profiles = Three
    /\ friend_requests = {}
    /\ EmptyTables

NextFriends ==
    \/ \E u \in Three, t \in Three : sendFriendRequest(u, t) /\ UNCHANGED audit
    \/ \E u \in Three, r \in friend_requests, a \in {"accept", "reject"} :
           handleRequest(u, r, a) /\ UNCHANGED audit
    \/ \E u \in Three, f \in Three : remove_friend(u, f) /\ UNCHANGED audit
    \/ \E u \in Three, f \in Three : create_friend_conversation(u, f)

SpecFriends == InitFriends /\ [][NextFriends]_vars

-----------------------------------------------------------------------------
(* Claims about create_friend_conversation, one call at a time *)

(* The pair has an accepted request, in either direction. *)
Accepted(a, b) ==
    \E r \in friend_requests :
        /\ r.status = "accepted"
        /\ \/ (r.sender_id = a /\ r.receiver_id = b)
           \/ (r.sender_id = b /\ r.receiver_id = a)

IsCall(op) == last.op = op

(* The tables the call found and the tables it left are the same. *)
DirectoryUnchanged ==
    /\ conversations = last.before.conversations
    /\ conversation_participants = last.before.conversation_participants

(* The call in `last` came after a call that returned an id for the same pair. *)
LaterCall ==
    \E e \in last.before.returned : e.pair = {last.args[1], last.args[2]}

(* C2: once create_friend_conversation has returned id C for the pair {a, b},
   every later call by a for b or by b for a, made while they are friends,
   returns C and adds no conversation row and no participant row. *)
C2_SequentialIdempotence ==
    (IsCall("create_friend_conversation") /\ LaterCall
        /\ Accepted(last.args[1], last.args[2]))
    => /\ last.ok
       /\ \A e \in returned : e.pair = {last.args[1], last.args[2]} => e.id = last.val
       /\ DirectoryUnchanged

(* A later call by the friend who did not create the conversation has
   returned the conversation the first call created. *)
C2_Witness ==
    /\ IsCall("create_friend_conversation") /\ last.ok
    /\ LaterCall /\ Accepted(last.args[1], last.args[2])
    /\ last.val \in DOMAIN conversations
    /\ conversations[last.val].created_by = last.args[2]
    /\ conversations[last.val].created_by # last.args[1]
    /\ [pair |-> {last.args[1], last.args[2]}, id |-> last.val] \in returned

(* C4: create_friend_conversation(friend_id) by a user who has no accepted
   request with friend_id in either direction raises 'Users are not friends'
   and leaves conversations and conversation_participants unchanged.  (The
   call does not write friend_requests: the ledger it leaves is the ledger it
   found.) *)
C4_NotFriendsRejected ==
    (IsCall("create_friend_conversation") /\ ~Accepted(last.args[1], last.args[2]))
    => /\ ~last.ok
       /\ last.err = "Users are not friends"
       /\ DirectoryUnchanged

(* The call was refused for a pair whose only request is a rejected one, with
   a conversation of another pair already stored. *)
C4_Witness ==
    /\ IsCall("create_friend_conversation") /\ ~last.ok
    /\ last.err = "Users are not friends"
    /\ \E r \in Between(last.args[1], last.args[2]) : r.status = "rejected"
    /\ conversations # << >>

-----------------------------------------------------------------------------
(* Claims about concurrent create_friend_conversation calls (SpecRace) *)

Returned(p) == rpc[p].pc = "done" /\ rpc[p].ok

DirectConversationsOf(pair) ==
    {c \in DOMAIN conversations :
        conversations[c].type = "direct" /\ Participants(c) = pair}

(* C1: the create_friend_conversation calls that two friends issue at the
   same time, interleaved in any way, all return the same conversation id and
   leave exactly one direct conversation whose participants are the two. *)
C1_OneConversationPerPair ==
    /\ \A p \in Procs, q \in Procs :
           (Returned(p) /\ Returned(q)
               /\ {rpc[p].caller, rpc[p].friend} = {rpc[q].caller, rpc[q].friend})
           => rpc[p].val = rpc[q].val
    /\ \A p \in Procs :
           Returned(p)
           => Cardinality(DirectConversationsOf({rpc[p].caller, rpc[p].friend})) = 1

-----------------------------------------------------------------------------
(* Claims about the directory's invariants and administrative functions *)

(* C3: in every reachable state every conversation of type direct has
   exactly two participant rows, of two distinct users. *)
C3_DirectHasTwoParticipants ==
    \A c \in DOMAIN conversations :
        conversations[c].type = "direct" => Cardinality(Participants(c)) = 2

(* The conversation the call names was, when the call was made, a group
   created by the caller. *)
CallerCreatedGroup(caller, c) ==
    /\ c \in DOMAIN last.before.conversations
    /\ last.before.conversations[c].type = "group"
    /\ last.before.conversations[c].created_by = caller

(* C5: kick_group_member removes a participant row only when the caller is
   the created_by of the conversation and the conversation is a group, and
   never the creator's row; called by anyone else, or on a conversation that
   is not a group, it fails and leaves conversation_participants unchanged. *)
C5_KickOnlyByGroupCreator ==
    IsCall("kick_group_member")
    => LET caller == last.args[1]
           c == last.args[2]
       IN  /\ ~CallerCreatedGroup(caller, c)
              => /\ ~last.ok
                 /\ conversation_participants = last.before.conversation_participants
           /\ \A row \in last.before.conversation_participants \ conversation_participants :
                 /\ CallerCreatedGroup(caller, c)
                 /\ row.conversation_id = c
                 /\ row.user_id # caller

MessagesUnchanged ==
    /\ messages = last.before.messages
    /\ message_reactions = last.before.message_reactions

(* C6: delete_group_conversation called by anyone who is not the creator of
   a group conversation (a member who did not create it, a non-member, any
   caller when the conversation is a direct one) fails and leaves the
   conversation row, its participant rows and its messages intact. *)
C6_DeleteOnlyByGroupCreator ==
    (IsCall("delete_group_conversation")
        /\ ~CallerCreatedGroup(last.args[1], last.args[2]))
    => /\ ~last.ok
       /\ DirectoryUnchanged
       /\ MessagesUnchanged

(* C7: delete_group_conversation called by the group's creator always
   succeeds and leaves no conversation row, no participant row, no message,
   no reaction on such a message and no typing_status row of the
   conversation. *)
C7_DeleteRemovesEverything ==
    (IsCall("delete_group_conversation")
        /\ CallerCreatedGroup(last.args[1], last.args[2]))
    => LET c == last.args[2]
           gone == {m \in DOMAIN last.before.messages :
                       last.before.messages[m].conversation_id = c}
       IN  /\ last.ok
           /\ c \notin DOMAIN conversations
           /\ Participants(c) = {}
           /\ MessagesOf(c) = {}
           /\ \A r \in message_reactions : r.message_id \notin gone
           /\ \A t \in typing_status : t.conversation_id # c

-----------------------------------------------------------------------------
(* Claims about groups (SpecGroup) *)

Groups == {c \in DOMAIN conversations : conversations[c].type = "group"}

(* C8, as stated: after any sequence of create_group_conversation and
   kick_group_member calls every group conversation has between 2 and 6
   participant rows and its creator is one of them. *)
C8_GroupHasTwoToSix ==
    \A c \in Groups :
        /\ Cardinality(Participants(c)) \in 2..(MaxFriends + 1)
        /\ conversations[c].created_by \in Participants(c)

(* C8, amended: after any sequence of create_group_conversation and
   kick_group_member calls every group conversation has between 1 and 6
   participant rows and its creator is one of them. *)
C8_GroupHasOneToSix ==
    \A c \in Groups :
        /\ Cardinality(Participants(c)) \in 1..(MaxFriends + 1)
        /\ conversations[c].created_by \in Participants(c)

(* The creator of a group has kicked its last other member: the creator is
   alone in the group. *)
C8_Witness ==
    /\ IsCall("kick_group_member") /\ last.ok
    /\ last.args[2] \in Groups
    /\ Participants(last.args[2]) = {conversations[last.args[2]].created_by}
    /\ Row(last.args[2], last.args[3]) \in last.before.conversation_participants

Blank(name) == \A i \in DOMAIN name : name[i] \in Whitespace

(* C9: create_group_conversation fails and creates nothing when the name is
   empty or whitespace-only, when friend_ids is empty or has more than 5
   entries; it succeeds for every non-blank name with 1 to 5 listed ids that
   are all accepted friends of the caller, and the group's participants are
   then exactly the caller and the listed ids. *)
C9_GroupCreationContract ==
    IsCall("create_group_conversation")
    => LET caller == last.args[1]
           name == last.args[2]
           ids == last.args[3]
       IN  /\ (Blank(name) \/ Len(ids) = 0 \/ Len(ids) > MaxFriends)
              => (~last.ok /\ DirectoryUnchanged)
           /\ (/\ ~Blank(name)
               /\ Len(ids) \in 1..MaxFriends
               /\ \A i \in DOMAIN ids : Accepted(caller, ids[i]))
              => /\ last.ok
                 /\ last.val \in Groups
                 /\ Participants(last.val) = {caller} \cup Range(ids)

(* C10: with a name that is not blank, create_group_conversation by a with
   friend_ids = [b] succeeds whenever a and b have an accepted request in
   either direction, and a list of 1 to 5 ids fails with the not-a-friend
   error, creating nothing, whenever one of them has no accepted request with
   the caller, whatever the others are. *)
C10_FriendsOnly ==
    (IsCall("create_group_conversation") /\ ~Blank(last.args[2]))
    => LET caller == last.args[1]
           ids == last.args[3]
       IN  /\ (Len(ids) = 1 /\ Accepted(caller, ids[1]))
              => /\ last.ok
                 /\ Participants(last.val) = {caller, ids[1]}
           /\ (Len(ids) \in 1..MaxFriends
                /\ \E i \in DOMAIN ids : ~Accepted(caller, ids[i]))
              => /\ ~last.ok
                 /\ last.err = "Selected user is not a friend"
                 /\ DirectoryUnchanged

(* The call was refused for a list whose first ids are friends of the caller
   and whose last id only has a pending request from the caller. *)
C10_Witness ==
    /\ IsCall("create_group_conversation")
    /\ last.err = "Selected user is not a friend"
    /\ Len(last.args[3]) >= 3
    /\ Accepted(last.args[1], last.args[3][1])
    /\ \E r \in Between(last.args[1], last.args[3][Len(last.args[3])]) :
           r.status = "pending"

(* C11: whenever create_group_conversation fails, at whatever statement,
   including an INSERT of a participant row, no conversation row and no
   participant row of that call is stored: the tables are as the call found
   them. *)
C11_AllOrNothing ==
    (IsCall("create_group_conversation") /\ ~last.ok)
    => /\ DirectoryUnchanged
       /\ \A row \in conversation_participants :
              row.conversation_id \in DOMAIN conversations

(* The call stopped at the INSERT of the second listed id, after the
   conversation row, the creator's row and the first id's row were written. *)
C11_Witness ==
    /\ IsCall("create_group_conversation")
    /\ last.err = "duplicate key"
    /\ Len(last.args[3]) = 2
    /\ last.args[3][1] # last.args[1]
    /\ last.args[3][2] = last.args[3][1]

-----------------------------------------------------------------------------
(* Message log: the rows a client sends to public.messages *)

(* A wrong variant of CanSendMessage, for comparison: the conversation is
   not looked at. *)
CanSendAsSelf(uid, sender_id, conversation_id) == uid = sender_id

(* "Users can send messages to their conversations": WITH CHECK (auth.uid() =
   sender_id AND conversation_id IN (SELECT conversation_id FROM
   conversation_participants WHERE user_id = auth.uid())). *)
CanSendMessage(uid, sender_id, conversation_id) ==
    /\ uid = sender_id
    /\ Row(conversation_id, uid) \in conversation_participants

(* INSERT INTO messages (conversation_id, sender_id, reply_to) sent by the
   client signed in as uid.  The policy is checked on the new row; reply_to
   REFERENCES messages(id), and nothing relates it to conversation_id. *)
PostMessage(uid, sender_id, conversation_id, reply_to) ==
    LET op == "post message"
        args == <<uid, sender_id, conversation_id, reply_to>>
    IN
    /\ uid \in profiles /\ sender_id \in profiles
    /\ IF ~CanSendMessage(uid, sender_id, conversation_id)
       THEN /\ last' = Did(Raise(op, args, "row-level security"))
            /\ UNCHANGED <<messages, nextMsg>>
       ELSE IF reply_to \notin DOMAIN messages \cup {NULL}
       THEN /\ last' = Did(Raise(op, args, "foreign key violation"))
            /\ UNCHANGED <<messages, nextMsg>>
       ELSE /\ nextMsg <= MaxMsgs
            /\ messages' = (nextMsg :> [conversation_id |-> conversation_id,
                                        sender_id |-> sender_id,
                                        reply_to |-> reply_to, edited_at |-> NULL]) @@ messages
            /\ nextMsg' = nextMsg + 1
            /\ last' = Did(Ok(op, args, nextMsg))
    /\ UNCHANGED <<profiles, audit, clientVars, callVars, ledgerVars, convVars,
                   message_reactions, typing_status, rpc, returned>>

(* ChatInterface: a click on a conversation of the user's list,
   setSelectedConversation(conversation.id).  replyingTo is left as it is. *)
selectConversation(user, c) ==
    /\ Row(c, user) \in conversation_participants
    /\ ui[user].selectedConversation # c
    /\ ui' = [ui EXCEPT ![user].selectedConversation = c]
    /\ last' = Ok("selectConversation", << >>, NULL)
    /\ UNCHANGED <<profiles, audit, newMessage, convList, inflight, typer, callVars, ledgerVars, convVars, msgVars,
                   typing_status, rpc, returned>>

(* MessageDisplay onReply={setReplyingTo}, on a message of the conversation
   that is shown. *)
onReply(user, m) ==
    /\ m \in DOMAIN messages
    /\ ui[user].selectedConversation = messages[m].conversation_id
    /\ Row(messages[m].conversation_id, user) \in conversation_participants
    /\ ui[user].replyingTo # m
    /\ ui' = [ui EXCEPT ![user].replyingTo = m]
    /\ last' = Ok("onReply", << >>, NULL)
    /\ UNCHANGED <<profiles, audit, newMessage, convList, inflight, typer, callVars, ledgerVars, convVars, msgVars,
                   typing_status, rpc, returned>>

(* The ids in the order of created_at, which is the order of the ids. *)
RECURSIVE ByCreation(_)
ByCreation(ids) ==
    IF ids = {} THEN << >>
    ELSE LET first == CHOOSE m \in ids : \A n \in ids : m <= n
         IN  <<first>> \o ByCreation(ids \ {first})

(* The most recent rows of an ascending order: its last `limit` rows. *)
LastRows(rows, limit) ==
    IF Len(rows) <= limit THEN rows ELSE SubSeq(rows, Len(rows) - limit + 1, Len(rows))

(* .order('created_at', { ascending: true }).limit(n): the first n rows. *)
FirstRows(rows, limit) ==
    IF Len(rows) <= limit THEN rows ELSE SubSeq(rows, 1, limit)

(* What fetchConversations reads for the user from the log msgs: the
   conversations of the user's participant rows, and for each the rows of
   messages of the conversation, ascending by created_at, limited. *)
FetchResult(user, msgs) ==
    [c \in {d \in DOMAIN conversations : Row(d, user) \in conversation_participants} |->
        FirstRows(ByCreation({m \in DOMAIN msgs : msgs[m].conversation_id = c}), Limit)]

(* fetchConversations, from the call to the last answer of its queries; the
   answer waits in flight until setConversations applies it. *)
fetchConversations(user) ==
    /\ user \in profiles
    /\ inflight' = [inflight EXCEPT ![user] = @ \cup {FetchResult(user, messages)}]
    /\ last' = Did(Ok("fetchConversations", <<user>>, FetchResult(user, messages)))
    /\ UNCHANGED <<profiles, audit, ui, newMessage, convList, typer, callVars, ledgerVars, convVars,
                   msgVars, typing_status, rpc, returned>>

(* setConversations(conversationsWithDetails): the answer of one
   fetchConversations call replaces the list, whichever call it was. *)
setConversations(user, answer) ==
    /\ answer \in inflight[user]
    /\ inflight' = [inflight EXCEPT ![user] = @ \ {answer}]
    /\ convList' = [convList EXCEPT ![user] = answer]
    /\ last' = Did(Ok("setConversations", <<user>>, answer))
    /\ UNCHANGED <<profiles, audit, ui, newMessage, typer, callVars, ledgerVars, convVars,
                   msgVars, typing_status, rpc, returned>>

(* The message input's onChange: setNewMessage(value). *)
onChange(user, value) ==
    /\ user \in profiles
    /\ newMessage[user] # value
    /\ newMessage' = [newMessage EXCEPT ![user] = value]
    /\ last' = Ok("onChange", << >>, NULL)
    /\ UNCHANGED <<profiles, audit, ui, convList, inflight, typer, callVars, ledgerVars, convVars,
                   msgVars, typing_status, rpc, returned>>

(* String.prototype.trim: white space is removed from both ends. *)
RECURSIVE JsTrim(_)
JsTrim(s) ==
    IF s = << >> THEN s
    ELSE IF Head(s) \in Whitespace THEN JsTrim(Tail(s))
    ELSE IF s[Len(s)] \in Whitespace THEN JsTrim(SubSeq(s, 1, Len(s) - 1))
    ELSE s

(* `temp-${Date.now()}` *)
TempId == 0 - now

(* prev.map(conv => conv.id === c
       ? {...conv, messages: [...conv.messages, tempMessage]} : conv) *)
AddTemp(list, c) ==
    [d \in DOMAIN list |-> IF d = c THEN Append(list[d], TempId) ELSE list[d]]

(* prev.map(conv => conv.id === c
       ? {...conv, messages: conv.messages.filter(m => m.id !== tempMessage.id)}
       : conv) *)
RemoveTemp(list, c) ==
    [d \in DOMAIN list |->
        IF d = c THEN SelectSeq(list[d], LAMBDA m : m # TempId) ELSE list[d]]

(* ChatInterface.sendMessage: returns at once for a blank input or with no
   conversation selected; appends the temporary message to the listed
   conversation, clears the input and replyingTo, and inserts the row
   (selectedConversation, user.id, replyingTo?.id).  After the insert it
   calls fetchConversations; after a refused insert it takes the temporary
   message out of the list and puts the trimmed text back in the input. *)
sendMessage(user) ==
    LET op == "sendMessage"
        c == ui[user].selectedConversation
        reply_to == ui[user].replyingTo
        args == <<user, user, c, reply_to>>
        messageText == JsTrim(newMessage[user])
        optimistic == AddTemp(convList[user], c)
        stored == (nextMsg :> [conversation_id |-> c, sender_id |-> user,
                               reply_to |-> reply_to, edited_at |-> NULL]) @@ messages
    IN
    /\ user \in profiles
    /\ messageText # << >>
    /\ c # NULL
    /\ ui' = [ui EXCEPT ![user].replyingTo = NULL]
    /\ IF ~CanSendMessage(user, user, c)
       THEN /\ last' = Did(Raise(op, args, "row-level security"))
            /\ convList' = [convList EXCEPT ![user] = RemoveTemp(optimistic, c)]
            /\ newMessage' = [newMessage EXCEPT ![user] = messageText]
            /\ UNCHANGED <<messages, nextMsg, inflight>>
       ELSE IF reply_to \notin DOMAIN messages \cup {NULL}
       THEN /\ last' = Did(Raise(op, args, "foreign key violation"))
            /\ convList' = [convList EXCEPT ![user] = RemoveTemp(optimistic, c)]
            /\ newMessage' = [newMessage EXCEPT ![user] = messageText]
            /\ UNCHANGED <<messages, nextMsg, inflight>>
       ELSE /\ nextMsg <= MaxMsgs
            /\ messages' = stored
            /\ nextMsg' = nextMsg + 1
            /\ convList' = [convList EXCEPT ![user] = optimistic]
            /\ newMessage' = [newMessage EXCEPT ![user] = << >>]
            /\ inflight' = [inflight EXCEPT ![user] = @ \cup {FetchResult(user, stored)}]
            /\ last' = Did(Ok(op, args, nextMsg))
    /\ UNCHANGED <<profiles, audit, typer, callVars, ledgerVars, convVars, message_reactions,
                   typing_status, rpc, returned>>

(* A row that replies to message m: reply_to REFERENCES messages(id) has no
   ON DELETE action, so the DELETE of m is refused while such a row exists. *)
RepliedTo(m) == \E n \in DOMAIN messages : n # m /\ messages[n].reply_to = m

(* MessageDisplay.deleteMessage: DELETE FROM messages WHERE id = message.id
   AND sender_id = user.id, under "Users can delete their own messages"
   (USING auth.uid() = sender_id).  A row the filter or the policy hides is
   not deleted and no error is reported; reactions go with the message
   (ON DELETE CASCADE). *)
deleteMessage(uid, m) ==
    LET op == "deleteMessage"
        args == <<uid, m>>
    IN
    /\ uid \in profiles
    /\ m \in DOMAIN messages
    /\ IF messages[m].sender_id # uid
       THEN /\ last' = Did(Ok(op, args, NULL))
            /\ UNCHANGED <<messages, message_reactions>>
       ELSE IF RepliedTo(m)
       THEN /\ last' = Did(Raise(op, args, "foreign key violation"))
            /\ UNCHANGED <<messages, message_reactions>>
       ELSE /\ messages' = Restrict(messages, DOMAIN messages \ {m})
            /\ message_reactions' = {r \in message_reactions : r.message_id # m}
            /\ last' = Did(Ok(op, args, m))
    /\ UNCHANGED <<profiles, audit, clientVars, callVars, ledgerVars, convVars, nextMsg,
                   typing_status, rpc, returned>>

(* The time an edit stamps into edited_at. *)
EditedNow == 1

(* UPDATE messages SET content = ..., edited_at = now() WHERE id = m, under
   "Users can update their own messages" (USING auth.uid() = sender_id): a
   row of another sender is not updated and no error is reported. *)
UpdateMessage(uid, m) ==
    LET op == "update message"
        args == <<uid, m>>
    IN
    /\ uid \in profiles
    /\ m \in DOMAIN messages
    /\ IF messages[m].sender_id # uid
       THEN /\ last' = Did(Ok(op, args, NULL))
            /\ UNCHANGED messages
       ELSE /\ messages[m].edited_at = NULL
            /\ messages' = [messages EXCEPT ![m].edited_at = EditedNow]
            /\ last' = Did(Ok(op, args, m))
    /\ UNCHANGED <<profiles, audit, clientVars, callVars, ledgerVars, convVars, nextMsg,
                   message_reactions, typing_status, rpc, returned>>

(* Log: three users; u1 and u2 have the direct conversation 1, u1 and u3 are
   the members of the group 2 that u1 created. *)
InitLog ==
    /\ profiles = Three
    /\ friend_requests = {Request("u1", "u2", "accepted"), Request("u3", "u1", "accepted")}
    /\ conversations = (1 :> [type |-> "direct", name |-> << >>, created_by |-> "u1"])
                       @@ (2 :> [type |-> "group", name |-> <<"g">>, created_by |-> "u1"])
    /\ nextConv = 3
    /\ conversation_participants =
           {Row(1, "u1"), Row(1, "u2"), Row(2, "u1"), Row(2, "u3")}
    /\ messages = << >>
    /\ nextMsg = 1
    /\ message_reactions = {}
    /\ typing_status = {}
    /\ ui = NoSelection
    /\ newMessage = NoText
    /\ convList = NoList
    /\ inflight = NoFetch
    /\ typer = NoTyping
    /\ calls = << >>
    /\ call_participants = {}
    /\ callUi = NoCallUi
    /\ now = 1
    /\ rpc = [p \in Procs |-> Idle]
    /\ audit = NoCall
    /\ returned = {[pair |-> Two, id |-> 1]}
    /\ last = NoCall

NextLog ==
    \/ \E uid \in Three, s \in Three, c \in 1..2, r \in 0..MaxMsgs :
           PostMessage(uid, s, c, r)
    \/ \E u \in {"u1"}, c \in 1..2 : selectConversation(u, c)
    \/ \E u \in {"u1"}, m \in 1..MaxMsgs : onReply(u, m)
    \/ \E u \in {"u1"} : onChange(u, <<"g">>)
    \/ \E u \in {"u1"} : sendMessage(u)

SpecLog == InitLog /\ [][NextLog]_vars

(* Posts: the same users and conversations, and only the rows the clients
   send to the messages table, with every principal, sender_id, conversation
   and reply target. *)
NextPost ==
    \E uid \in Three, s \in Three, c \in 1..2, r \in 0..MaxMsgs :
        PostMessage(uid, s, c, r)

SpecPost == InitLog /\ [][NextPost]_vars

(* Edits: the same users and conversations; messages and replies sent by
   the members, reactions, and the deletes and updates every user attempts
   on every message. *)
NextEdit ==
    \/ \E u \in Three, c \in 1..2, r \in 0..MaxMsgs : InsertMessage(u, c, r)
    \/ \E u \in Three, m \in 1..MaxMsgs, e \in Emojis : InsertReaction(u, m, e)
    \/ \E u \in Three, m \in 1..MaxMsgs : deleteMessage(u, m)
    \/ \E u \in Three, m \in 1..MaxMsgs : UpdateMessage(u, m)

SpecEdit == InitLog /\ [][NextEdit]_vars

(* The messages of conversation c, as the call found them and now. *)
LogUnchanged == messages = last.before.messages

(* C12: an insert into messages for conversation C by a principal who has no
   participant row in C, or with a sender_id that is not the principal, is
   rejected and the message log is unchanged. *)
C12_OnlyParticipantsSend ==
    (IsCall("post message")
        /\ (\/ last.args[1] # last.args[2]
            \/ Row(last.args[3], last.args[1]) \notin conversation_participants))
    => /\ ~last.ok
       /\ LogUnchanged

(* A member of another conversation, signing the row with their own id, was
   refused while the log already held a message. *)
C12_Witness ==
    /\ IsCall("post message") /\ ~last.ok
    /\ last.args[1] = last.args[2]
    /\ Row(last.args[3], last.args[1]) \notin conversation_participants
    /\ \E c \in DOMAIN conversations : Row(c, last.args[1]) \in conversation_participants
    /\ messages # << >>

(* C13: every message whose reply_to is set replies to a message of its own
   conversation, and a send whose reply target belongs to another
   conversation is rejected and stores nothing, in whatever order the user
   chooses the reply target, selects a conversation and sends. *)
C13_RepliesStayInConversation ==
    /\ \A m \in DOMAIN messages :
           messages[m].reply_to # NULL
           => /\ messages[m].reply_to \in DOMAIN messages
              /\ messages[messages[m].reply_to].conversation_id = messages[m].conversation_id
    /\ (/\ last.op \in {"sendMessage", "post message"}
        /\ last.args[4] \in DOMAIN last.before.messages
        /\ last.before.messages[last.args[4]].conversation_id # last.args[3])
       => (~last.ok /\ LogUnchanged)

(* C14: a delete or update of a message attempted by anyone but its sender
   changes nothing, and a delete by the sender succeeds for every message of
   the log and removes the message row and every reaction row on it. *)
C14_OnlySenderDeletesOrEdits ==
    (last.op \in {"deleteMessage", "update message"})
    => LET uid == last.args[1]
           m == last.args[2]
           sender == last.before.messages[m].sender_id
       IN  /\ sender # uid
              => /\ messages = last.before.messages
                 /\ message_reactions = last.before.message_reactions
           /\ (sender = uid /\ last.op = "deleteMessage")
              => /\ last.ok
                 /\ m \notin DOMAIN messages
                 /\ \A r \in message_reactions : r.message_id # m

-----------------------------------------------------------------------------
(* Reactions: MessageDisplay.addReaction *)

Reaction(m, u, e) == [message_id |-> m, user_id |-> u, emoji |-> e]

(* fetchReactions: the rows of the message grouped by emoji; the entry of an
   emoji keeps the id and user_id of the first row the SELECT returned for
   it and counts the others.  The SELECT has no ORDER BY: any row of the
   emoji can be the first.  The result is the set of the kept rows. *)
fetchReactions(m) ==
    LET rows == {r \in message_reactions : r.message_id = m}
        used == {r.emoji : r \in rows}
        firsts == [used -> rows]
    IN  {{f[e] : e \in used} : f \in {g \in firsts : \A e \in used : g[e].emoji = e}}

(* reactions.find(r => r.emoji === emoji && r.user_id === user.id) *)
HeldReaction(reactions, user, emoji) ==
    {r \in reactions : r.emoji = emoji /\ r.user_id = user}

(* addReaction(emoji) by user on message m, with the reactions state that
   fetchReactions last set: removeReaction of the entry found, else INSERT of
   (message.id, user.id, emoji), which the policy allows to the participants
   of the message's conversation and UNIQUE(message_id, user_id, emoji)
   refuses when the row is stored. *)
addReaction(user, m, emoji) ==
    LET op == "addReaction"
        args == <<user, m, emoji>>
    IN
    /\ user \in profiles
    /\ m \in DOMAIN messages
    /\ \E reactions \in fetchReactions(m) :
          IF HeldReaction(reactions, user, emoji) # {}
          THEN /\ message_reactions' = message_reactions \ {Reaction(m, user, emoji)}
               /\ last' = Did(Ok(op, args, NULL))
          ELSE IF Row(messages[m].conversation_id, user) \notin conversation_participants
          THEN /\ last' = Did(Raise(op, args, "row-level security"))
               /\ UNCHANGED message_reactions
          ELSE IF Reaction(m, user, emoji) \in message_reactions
          THEN /\ last' = Did(Raise(op, args, "duplicate key"))
               /\ UNCHANGED message_reactions
          ELSE /\ message_reactions' = message_reactions \cup {Reaction(m, user, emoji)}
               /\ last' = Did(Ok(op, args, NULL))
    /\ UNCHANGED <<profiles, audit, clientVars, callVars, ledgerVars, convVars, messages,
                   nextMsg, typing_status, rpc, returned>>

(* Reactions: the users and conversations of the log, with one message of u1
   in the direct conversation of u1 and u2, and one of u3 in the group of u1
   and u3. *)
InitReactions ==
    /\ profiles = Three
    /\ friend_requests = {Request("u1", "u2", "accepted"), Request("u3", "u1", "accepted")}
    /\ conversations = (1 :> [type |-> "direct", name |-> << >>, created_by |-> "u1"])
                       @@ (2 :> [type |-> "group", name |-> <<"g">>, created_by |-> "u1"])
    /\ nextConv = 3
    /\ conversation_participants =
           {Row(1, "u1"), Row(1, "u2"), Row(2, "u1"), Row(2, "u3")}
    /\ messages = (1 :> [conversation_id |-> 1, sender_id |-> "u1",
                         reply_to |-> NULL, edited_at |-> NULL])
                  @@ (2 :> [conversation_id |-> 2, sender_id |-> "u3",
                            reply_to |-> NULL, edited_at |-> NULL])
    /\ nextMsg = 3
    /\ message_reactions = {}
    /\ typing_status = {}
    /\ ui = NoSelection
    /\ newMessage = NoText
    /\ convList = NoList
    /\ inflight = NoFetch
    /\ typer = NoTyping
    /\ calls = << >>
    /\ call_participants = {}
    /\ callUi = NoCallUi
    /\ now = 1
    /\ rpc = [p \in Procs |-> Idle]
    /\ audit = NoCall
    /\ returned = {[pair |-> Two, id |-> 1]}
    /\ last = NoCall

NextReactions ==
    \E u \in Three, m \in 1..2, e \in Emojis : addReaction(u, m, e)

SpecReactions == InitReactions /\ [][NextReactions]_vars

(* C15: addReaction(e) by a participant u inserts the row (message, u, e)
   when u does not hold it and removes it when u does, whatever reactions
   other users hold on the message, and touches no other row: two identical
   applications leave u without the reaction, two different emojis leave two
   rows of u. *)
C15_ToggleReaction ==
    (IsCall("addReaction")
        /\ Row(messages[last.args[2]].conversation_id, last.args[1])
               \in conversation_participants)
    => LET row == Reaction(last.args[2], last.args[1], last.args[3])
       IN  IF row \in last.before.message_reactions
           THEN message_reactions = last.before.message_reactions \ {row}
           ELSE message_reactions = last.before.message_reactions \cup {row}

-----------------------------------------------------------------------------
(* Friendship ledger: responding and blocking *)

(* The UPDATE of PendingRequests.handleRequest, .update({status}).eq('id',
   requestId), sent by uid for a request the client holds: the list is
   fetched when the dialog opens, and the statement has no filter on status.
   "Users can update friend requests they received" (USING auth.uid() =
   receiver_id) hides every other row: it is not updated and no error is
   reported. *)
handleRequestFor(uid, request, action) ==
    LET op == "handleRequest"
        args == <<uid, request, action>>
    IN
    /\ uid \in profiles
    /\ request \in friend_requests
    /\ IF request.receiver_id # uid
       THEN /\ last' = Did(Ok(op, args, NULL))
            /\ UNCHANGED friend_requests
       ELSE /\ friend_requests' = (friend_requests \ {request}) \cup
                   {[request EXCEPT !.status =
                        IF action = "accept" THEN "accepted" ELSE "rejected"]}
            /\ last' = Did(Ok(op, args, NULL))
    /\ UNCHANGED <<profiles, clientVars, callVars, convVars, msgVars,
                   typing_status, rpc, returned>>

(* friend_requests.status: CHECK (status IN ('pending', 'accepted', 'rejected')) *)
StatusCheck(status) == status \in {"pending", "accepted", "rejected"}

(* block_user(user_id_to_block): UPDATE of the pair's rows to status
   'blocked'; IF NOT FOUND, INSERT of a row with status 'blocked'.  Every
   row written is checked against the CHECK constraint of status; a
   violation aborts the call. *)
block_user(current_user_id, user_id_to_block) ==
    LET op == "block_user"
        args == <<current_user_id, user_id_to_block>>
        found == Between(current_user_id, user_id_to_block)
        written ==
            IF found # {}
            THEN (friend_requests \ found) \cup {[r EXCEPT !.status = "blocked"] : r \in found}
            ELSE friend_requests \cup {Request(current_user_id, user_id_to_block, "blocked")}
    IN
    /\ current_user_id \in profiles /\ user_id_to_block \in profiles
    /\ IF \E r \in written : ~StatusCheck(r.status)
       THEN /\ friend_requests' = Rollback(friend_requests, written)
            /\ last' = Did(Raise(op, args, "check constraint"))
       ELSE /\ friend_requests' = written
            /\ last' = Did(Ok(op, args, NULL))
    /\ UNCHANGED <<profiles, clientVars, callVars, convVars, msgVars,
                   typing_status, rpc, returned>>

(* The record of a ledger call: its arguments and the tables it found. *)
Audited(op, args) == [op |-> op, args |-> args, before |-> Snap]

(* Ledger: three users, no request yet, a conversation and a message stored;
   every ledger operation by every user on every other.  The calls of
   sendFriendRequest and remove_friend are recorded in audit, the other
   operations record themselves in `last`. *)
InitLedger ==
    /\ profiles = Three
    /\ friend_requests = {}
    /\ conversations = (1 :> [type |-> "direct", name |-> << >>, created_by |-> "u1"])
    /\ nextConv = 2
    /\ conversation_participants = {Row(1, "u1"), Row(1, "u2")}
    /\ messages = (1 :> [conversation_id |-> 1, sender_id |-> "u1",
                         reply_to |-> NULL, edited_at |-> NULL])
    /\ nextMsg = 2
    /\ message_reactions = {}
    /\ typing_status = {}
    /\ ui = NoSelection
    /\ newMessage = NoText
    /\ convList = NoList
    /\ inflight = NoFetch
    /\ typer = NoTyping
    /\ calls = << >>
    /\ call_participants = {}
    /\ callUi = NoCallUi
    /\ now = 1
    /\ rpc = [p \in Procs |-> Idle]
    /\ audit = NoCall
    /\ returned = {[pair |-> Two, id |-> 1]}
    /\ last = NoCall

NextLedger ==
    \/ \E u \in Three, t \in Three :
           sendFriendRequest(u, t) /\ audit' = Audited("sendFriendRequest", <<u, t>>)
    \/ \E u \in Three, r \in friend_requests, a \in {"accept", "reject"} :
           handleRequestFor(u, r, a) /\ audit' = NoCall
    \/ \E u \in Three, f \in Three :
           remove_friend(u, f) /\ audit' = Audited("remove_friend", <<u, f>>)
    \/ \E u \in Three, b \in Three : block_user(u, b) /\ audit' = NoCall

SpecLedger == InitLedger /\ [][NextLedger]_vars

(* The ledger call that made the last step. *)
IsLedgerCall(op) == last.op = op /\ audit.op = op

(* C16: block_user(b) called by a succeeds whatever request rows exist
   between a and b and leaves exactly one friend_requests row for the pair,
   with status blocked. *)
C16_BlockLeavesOneBlockedRow ==
    IsCall("block_user")
    => /\ last.ok
       /\ Cardinality(Between(last.args[1], last.args[2])) = 1
       /\ \A r \in Between(last.args[1], last.args[2]) : r.status = "blocked"

(* C17: sendFriendRequest from s to r inserts a pending request of s exactly
   when s and r differ and no pending, accepted or blocked request exists
   between them in either direction (a rejected one does not prevent it); in
   every other case it fails and leaves friend_requests unchanged. *)
C17_SendUnlessLiveRequest ==
    IsLedgerCall("sendFriendRequest")
    => LET s == audit.args[1]
           r == audit.args[2]
           found == audit.before.friend_requests
           live == \E q \in found :
                       /\ {q.sender_id, q.receiver_id} = {s, r}
                       /\ q.status \in {"pending", "accepted", "blocked"}
       IN  IF s # r /\ ~live
           THEN /\ last.ok
                /\ Request(s, r, "pending") \in friend_requests
           ELSE /\ ~last.ok
                /\ friend_requests = found

(* C18: a request's status is changed only by its receiver and only while it
   is pending: a respond by the sender or a third party, or on a request
   that is already accepted or rejected, changes nothing. *)
C18_OnlyReceiverWhilePending ==
    IsCall("handleRequest")
    => LET uid == last.args[1]
           request == last.args[2]
       IN  (request.receiver_id # uid \/ request.status # "pending")
           => friend_requests = last.before.friend_requests

(* C19: remove_friend(b) called by a deletes every accepted request between
   a and b, in either direction, and nothing else: the other rows of
   friend_requests, the conversations, participants and messages are as the
   call found them; with no accepted request it changes nothing; it returns
   success in every case. *)
C19_RemoveOnlyAccepted ==
    IsLedgerCall("remove_friend")
    => LET a == audit.args[1]
           b == audit.args[2]
           found == audit.before.friend_requests
       IN  /\ last.ok
           /\ friend_requests =
                  {q \in found : ~(q.status = "accepted"
                                    /\ {q.sender_id, q.receiver_id} = {a, b})}
           /\ conversations = audit.before.conversations
           /\ conversation_participants = audit.before.conversation_participants
           /\ messages = audit.before.messages

(* The call deleted the accepted request that the friend had sent, and left
   a pending and a rejected request of other pairs in place. *)
C19_Witness ==
    /\ IsLedgerCall("remove_friend")
    /\ Request(audit.args[2], audit.args[1], "accepted") \in audit.before.friend_requests
    /\ \E q \in friend_requests : q.status = "pending"
    /\ \E q \in friend_requests : q.status = "rejected"
    /\ \A q \in friend_requests : q.status # "accepted"

(* Call session registry *)

MaxCalls == 1
MaxTime == 3

(* CHECK (status IN ('pending', 'active', 'ended', 'missed')) *)
CallStatusCheck(status) == status \in {"pending", "active", "ended", "missed"}

(* "Users can view calls in their conversations": conversation_id IN (the
   conversations of auth.uid()). *)
CanViewCall(uid, k) ==
    Row(calls[k].conversation_id, uid) \in conversation_participants

(* A row of call_participants as an INSERT of (call_id, user_id) stores it:
   joined_at, is_muted and is_video_enabled take their defaults. *)
Participant(k, u, left_at) ==
    [call_id |-> k, user_id |-> u, joined_at |-> now, left_at |-> left_at,
     is_muted |-> FALSE, is_video_enabled |-> FALSE]

(* ChatInterface.startCall: INSERT of the call with status 'active' under
   "Users can create calls in their conversations", then the INSERT of the
   initiator's participant row and setActiveCall.  The INSERT event of the
   change feed sets incomingCall for every other user who may see the call. *)
startCall(user, selectedConversation) ==
    /\ Len(calls) < MaxCalls
    /\ LET args == <<user, selectedConversation>>
           id == Len(calls) + 1
       IN  IF Row(selectedConversation, user) \notin conversation_participants
           THEN /\ last' = Did(Raise("startCall", args, "row-level security"))
                /\ UNCHANGED <<calls, call_participants, callUi>>
           ELSE /\ calls' = Append(calls, [conversation_id |-> selectedConversation,
                                           initiator_id |-> user,
                                           status |-> "active",
                                           started_at |-> now,
                                           ended_at |-> NULL,
                                           duration_seconds |-> 0])
                /\ call_participants' = call_participants \cup {Participant(id, user, NULL)}
                /\ callUi' = [u \in Users |->
                                 IF u = user
                                 THEN [incomingCall |-> callUi[u].incomingCall]
                                          @@ [Unmounted EXCEPT !.activeCall = id]
                                 ELSE IF Row(selectedConversation, u) \in conversation_participants
                                      THEN [callUi[u] EXCEPT !.incomingCall = id]
                                      ELSE callUi[u]]
                /\ last' = Did(Ok("startCall", args, id))
    /\ UNCHANGED <<profiles, audit, clientVars, now, ledgerVars, convVars, msgVars,
                   typing_status, rpc, returned>>

(* ChatInterface.handleAcceptCall: INSERT of the user's participant row for
   the incoming call (UNIQUE(call_id, user_id); the result is not looked
   at), then setActiveCall and setIncomingCall(null). *)
handleAcceptCall(user) ==
    /\ callUi[user].incomingCall # NULL
    /\ LET k == callUi[user].incomingCall
       IN  /\ call_participants' =
                  IF \E r \in call_participants : r.call_id = k /\ r.user_id = user
                  THEN call_participants
                  ELSE call_participants \cup {Participant(k, user, NULL)}
           /\ callUi' = [callUi EXCEPT ![user] = [incomingCall |-> NULL]
                                                     @@ [Unmounted EXCEPT !.activeCall = k]]
           /\ last' = Did(Ok("handleAcceptCall", <<user, k>>, NULL))
    /\ UNCHANGED <<profiles, audit, clientVars, calls, now, ledgerVars, convVars, msgVars,
                   typing_status, rpc, returned>>

(* IncomingCallModal.handleDecline: UPDATE calls SET status = 'declined',
   ended_at WHERE id = call.id, under "Users can update calls they
   initiated"; a row the policy hides is not updated, and a row it shows
   fails the CHECK on status.  Then setIncomingCall(null). *)
handleDecline(user) ==
    /\ callUi[user].incomingCall # NULL
    /\ LET k == callUi[user].incomingCall
       IN  /\ calls' = IF calls[k].initiator_id = user /\ CallStatusCheck("declined")
                       THEN [calls EXCEPT ![k].status = "declined", ![k].ended_at = now]
                       ELSE calls
           /\ callUi' = [callUi EXCEPT ![user].incomingCall = NULL]
           /\ last' = Did(Ok("handleDecline", <<user, k>>, NULL))
    /\ UNCHANGED <<profiles, audit, clientVars, call_participants, now, ledgerVars, convVars,
                   msgVars, typing_status, rpc, returned>>

(* CallInterface.fetchParticipants, on mount and on every change-feed event
   of call_participants: the rows of the call with left_at NULL that the
   SELECT policies show the user. *)
fetchParticipants(user) ==
    /\ callUi[user].activeCall # NULL
    /\ LET k == callUi[user].activeCall
       IN  callUi' = [callUi EXCEPT ![user].participants =
                         {r.user_id : r \in {q \in call_participants :
                                                /\ q.call_id = k
                                                /\ q.left_at = NULL
                                                /\ (q.user_id = user \/ CanViewCall(user, k))}}]
    /\ last' = NoCall
    /\ UNCHANGED <<profiles, audit, clientVars, calls, call_participants, now, ledgerVars,
                   convVars, msgVars, typing_status, rpc, returned>>

(* CallInterface.endCall: UPDATE of the user's participant row with left_at;
   when the participants last fetched hold nobody else, UPDATE calls SET
   status = 'ended', ended_at WHERE id = callId, which "Users can update
   calls they initiated" applies to the initiator's calls only and which
   does not write duration_seconds; then onEndCall. *)
endCall(user) ==
    /\ callUi[user].activeCall # NULL
    /\ LET k == callUi[user].activeCall
           activeParticipants == callUi[user].participants \ {user}
       IN  /\ call_participants' =
                  {IF r.call_id = k /\ r.user_id = user
                   THEN [r EXCEPT !.left_at = now] ELSE r : r \in call_participants}
           /\ calls' = IF activeParticipants = {} /\ calls[k].initiator_id = user
                       THEN [calls EXCEPT ![k].status = "ended", ![k].ended_at = now]
                       ELSE calls
           /\ callUi' = [callUi EXCEPT ![user] = [incomingCall |-> callUi[user].incomingCall]
                                                     @@ Unmounted]
           /\ last' = Did(Ok("endCall", <<user, k>>, NULL))
    /\ UNCHANGED <<profiles, audit, clientVars, now, ledgerVars, convVars, msgVars,
                   typing_status, rpc, returned>>

(* Time passes. *)
Tick ==
    /\ now < MaxTime
    /\ now' = now + 1
    /\ last' = NoCall
    /\ UNCHANGED <<profiles, audit, clientVars, calls, call_participants, callUi, ledgerVars,
                   convVars, msgVars, typing_status, rpc, returned>>

(* Calls: three users, u1 and u2 in the direct conversation 1, no call yet. *)
InitCalls ==
    /\ profiles = Three
    /\ friend_requests = {Request("u1", "u2", "accepted")}
    /\ conversations = (1 :> [type |-> "direct", name |-> << >>, created_by |-> "u1"])
    /\ nextConv = 2
    /\ conversation_participants = {Row(1, "u1"), Row(1, "u2")}
    /\ messages = << >>
    /\ nextMsg = 1
    /\ message_reactions = {}
    /\ typing_status = {}
    /\ ui = NoSelection
    /\ newMessage = NoText
    /\ convList = NoList
    /\ inflight = NoFetch
    /\ typer = NoTyping
    /\ calls = << >>
    /\ call_participants = {}
    /\ callUi = NoCallUi
    /\ now = 1
    /\ rpc = [p \in Procs |-> Idle]
    /\ audit = NoCall
    /\ returned = {[pair |-> Two, id |-> 1]}
    /\ last = NoCall

NextCalls ==
    \/ \E u \in Three, c \in 1..MaxConvs : startCall(u, c)
    \/ \E u \in Three : handleAcceptCall(u)
    \/ \E u \in Three : handleDecline(u)
    \/ \E u \in Three : fetchParticipants(u)
    \/ \E u \in Three : endCall(u)
    \/ Tick

SpecCalls == InitCalls /\ [][NextCalls]_vars

(* C20: under every interleaving of joins and leaves, a call is active while
   one of its participant rows has no left_at, and once each of its
   participant rows has a left_at its status is ended, ended_at is set and
   duration_seconds = ended_at - started_at, whoever leaves last. *)
C20_CallEndsWhenAllLeft ==
    \A k \in DOMAIN calls :
        LET rows == {r \in call_participants : r.call_id = k}
        IN  /\ (\E r \in rows : r.left_at = NULL) => calls[k].status = "active"
            /\ (rows # {} /\ \A r \in rows : r.left_at # NULL)
               => /\ calls[k].status = "ended"
                  /\ calls[k].ended_at # NULL
                  /\ calls[k].duration_seconds = calls[k].ended_at - calls[k].started_at

(* C21: handleAcceptCall adds the joiner's call_participants row only if the
   call is active at that moment; for a call that has ended or was declined
   the join fails and adds no row. *)
C21_JoinOnlyActiveCall ==
    IsCall("handleAcceptCall")
    => LET user == last.args[1]
           k == last.args[2]
       IN  calls[k].status # "active"
           => /\ ~last.ok
              /\ ~\E r \in call_participants : r.call_id = k /\ r.user_id = user

(* C22: when a callee who has no participant row of the call declines it,
   the call's status becomes declined, its ended_at is set, and no
   call_participants row is created for the callee. *)
C22_DeclineEndsCall ==
    IsCall("handleDecline")
    => LET user == last.args[1]
           k == last.args[2]
       IN  (~\E r \in call_participants : r.call_id = k /\ r.user_id = user)
           => /\ calls[k].status = "declined"
              /\ calls[k].ended_at # NULL

-----------------------------------------------------------------------------
(* Call session registry: the participants' flags *)

(* A wrong variant of OwnRows, for comparison: every row of the call
   is matched, whoever the principal is. *)
RowsOfCall(uid, k, target) ==
    {r \in call_participants : r.call_id = k}

(* UPDATE call_participants ... WHERE call_id = k AND user_id = target, sent
   by uid under "Users can manage their own call participation", USING
   (auth.uid() = user_id): the rows the statement changes. *)
OwnRows(uid, k, target) ==
    {r \in call_participants : r.call_id = k /\ r.user_id = target /\ r.user_id = uid}

(* CallInterface.toggleMute.  localStream is the stream getUserMedia gave,
   or none when it failed or has not answered; a stream asked with audio
   has an audio track.  The new flag is the negation of the component's
   isMuted, and the row is the user's of the call. *)
toggleMute(user, localStream) ==
    /\ callUi[user].activeCall # NULL
    /\ LET k == callUi[user].activeCall
           isMuted == callUi[user].isMuted
           hit == OwnRows(user, k, user)
       IN  IF localStream
           THEN /\ callUi' = [callUi EXCEPT ![user].isMuted = ~isMuted]
                /\ call_participants' =
                       {IF r \in hit THEN [r EXCEPT !.is_muted = ~isMuted] ELSE r :
                            r \in call_participants}
                /\ last' = Did(Ok("toggleMute", <<user, k, user>>, ~isMuted))
           ELSE /\ UNCHANGED <<callUi, call_participants>>
                /\ last' = Did(Ok("toggleMute", <<user, k, user>>, NULL))
    /\ UNCHANGED <<profiles, audit, clientVars, calls, now, ledgerVars, convVars, msgVars,
                   typing_status, rpc, returned>>

(* initializeCall asks getUserMedia({audio: true, video: isVideoEnabled})
   when the component mounts, with isVideoEnabled false: the stream has a
   video track exactly when video was asked for. *)
getVideoTracks(localStream, video) == localStream /\ video

(* CallInterface.toggleVideo: acts only when the stream has a video track. *)
toggleVideo(user, localStream) ==
    /\ callUi[user].activeCall # NULL
    /\ LET k == callUi[user].activeCall
           isVideoEnabled == callUi[user].isVideoEnabled
           hit == OwnRows(user, k, user)
       IN  IF getVideoTracks(localStream, Unmounted.isVideoEnabled)
           THEN /\ callUi' = [callUi EXCEPT ![user].isVideoEnabled = ~isVideoEnabled]
                /\ call_participants' =
                       {IF r \in hit THEN [r EXCEPT !.is_video_enabled = ~isVideoEnabled]
                        ELSE r : r \in call_participants}
                /\ last' = Did(Ok("toggleVideo", <<user, k, user>>, ~isVideoEnabled))
           ELSE /\ UNCHANGED <<callUi, call_participants>>
                /\ last' = Did(Ok("toggleVideo", <<user, k, user>>, NULL))
    /\ UNCHANGED <<profiles, audit, clientVars, calls, now, ledgerVars, convVars, msgVars,
                   typing_status, rpc, returned>>

(* The same UPDATE sent by a client for any call and any user's row, with
   either flag and either value: the policy hides the rows of the others,
   the statement changes the rows left and reports no error. *)
UpdateFlag(uid, k, target, flag, v) ==
    /\ k \in DOMAIN calls
    /\ LET hit == OwnRows(uid, k, target)
       IN  call_participants' =
               {IF r \in hit
                THEN IF flag = "is_muted" THEN [r EXCEPT !.is_muted = v]
                                          ELSE [r EXCEPT !.is_video_enabled = v]
                ELSE r : r \in call_participants}
    /\ last' = Did(Ok("update flag", <<uid, k, target>>, NULL))
    /\ UNCHANGED <<profiles, audit, clientVars, calls, callUi, now, ledgerVars, convVars,
                   msgVars, typing_status, rpc, returned>>

(* Flags: u1 has started a call in the direct conversation, u2 has joined
   and both have the call open; from there the flags are toggled and
   written, by the participants and by u3, and the participants leave. *)
InitFlags ==
    /\ profiles = Three
    /\ friend_requests = {Request("u1", "u2", "accepted")}
    /\ conversations = (1 :> [type |-> "direct", name |-> << >>, created_by |-> "u1"])
    /\ nextConv = 2
    /\ conversation_participants = {Row(1, "u1"), Row(1, "u2")}
    /\ messages = << >>
    /\ nextMsg = 1
    /\ message_reactions = {}
    /\ typing_status = {}
    /\ ui = NoSelection
    /\ newMessage = NoText
    /\ convList = NoList
    /\ inflight = NoFetch
    /\ typer = NoTyping
    /\ calls = <<[conversation_id |-> 1, initiator_id |-> "u1", status |-> "active",
                  started_at |-> 1, ended_at |-> NULL, duration_seconds |-> 0]>>
    /\ call_participants =
           {[call_id |-> 1, user_id |-> u, joined_at |-> 1, left_at |-> NULL,
             is_muted |-> FALSE, is_video_enabled |-> FALSE] : u \in Two}
    /\ callUi = [u \in Users |->
                    IF u \in Two
                    THEN [incomingCall |-> NULL] @@ [Unmounted EXCEPT !.activeCall = 1]
                    ELSE NoCallUi[u]]
    /\ now = 2
    /\ rpc = [p \in Procs |-> Idle]
    /\ audit = NoCall
    /\ returned = {[pair |-> Two, id |-> 1]}
    /\ last = NoCall

NextFlags ==
    \/ \E u \in Two : fetchParticipants(u)
    \/ \E u \in Two : endCall(u)
    \/ \E u \in Two, s \in BOOLEAN : toggleMute(u, s)
    \/ \E u \in Two, s \in BOOLEAN : toggleVideo(u, s)
    \/ \E u \in Three, t \in Two, k \in 1..MaxCalls, f \in {"is_muted", "is_video_enabled"},
          v \in BOOLEAN : UpdateFlag(u, k, t, f, v)

SpecFlags == InitFlags /\ [][NextFlags]_vars

(* The row without its flags. *)
Unflagged(r) == [call_id |-> r.call_id, user_id |-> r.user_id,
                 joined_at |-> r.joined_at, left_at |-> r.left_at]

(* C23: toggleMute, toggleVideo and a flag update by a principal change at
   most a flag of the principal's own call_participants row of that call:
   the rows of the other users and of other calls, every joined_at and
   left_at, and the calls table are as before, and an update aimed at
   another user's row changes no row. *)
C23_TogglesOwnFlagsOnly ==
    (last.op \in {"toggleMute", "toggleVideo", "update flag"})
    => LET uid == last.args[1]
           k == last.args[2]
           target == last.args[3]
           found == last.before.call_participants
           own(r) == r.call_id = k /\ r.user_id = uid
       IN  /\ calls = last.before.calls
           /\ {r \in call_participants : ~own(r)} = {r \in found : ~own(r)}
           /\ {Unflagged(r) : r \in call_participants} = {Unflagged(r) : r \in found}
           /\ Cardinality(call_participants) = Cardinality(found)
           /\ target # uid => call_participants = found
           /\ last.op = "toggleMute"
              => \A r \in call_participants :
                     \E q \in found : q = [r EXCEPT !.is_muted = q.is_muted]
           /\ last.op = "toggleVideo"
              => \A r \in call_participants :
                     \E q \in found : q = [r EXCEPT !.is_video_enabled = q.is_video_enabled]

(* toggleMute wrote the flag of the user's row while the other participant's
   row, unmuted, sat in the same call. *)
C23_Witness ==
    /\ last.op = "toggleMute"
    /\ \E r \in call_participants :
           r.call_id = last.args[2] /\ r.user_id = last.args[1] /\ r.is_muted
    /\ \E r \in call_participants :
           r.call_id = last.args[2] /\ r.user_id # last.args[1] /\ ~r.is_muted

-----------------------------------------------------------------------------
(* The conversation list: fetchConversations *)

MaxStored == 3

(* The logs of at most MaxStored messages that u1, a member of both
   conversations of InitLog, can have sent. *)
StoredLogs ==
    UNION {[1..n -> {[conversation_id |-> c, sender_id |-> u, reply_to |-> NULL,
                      edited_at |-> NULL] :
                         c \in {1, 2}, u \in {"u1"}}] : n \in 0..MaxStored}

(* Listing: the users and conversations of InitLog with any of the stored
   logs; every user fetches, and the answers are applied in any order. *)
InitList ==
    /\ profiles = Three
    /\ friend_requests = {Request("u1", "u2", "accepted"), Request("u3", "u1", "accepted")}
    /\ conversations = (1 :> [type |-> "direct", name |-> << >>, created_by |-> "u1"])
                       @@ (2 :> [type |-> "group", name |-> <<"g">>, created_by |-> "u1"])
    /\ nextConv = 3
    /\ conversation_participants =
           {Row(1, "u1"), Row(1, "u2"), Row(2, "u1"), Row(2, "u3")}
    /\ messages \in StoredLogs
    /\ nextMsg = Len(messages) + 1
    /\ message_reactions = {}
    /\ typing_status = {}
    /\ ui = NoSelection
    /\ newMessage = NoText
    /\ convList = NoList
    /\ inflight = NoFetch
    /\ typer = NoTyping
    /\ calls = << >>
    /\ call_participants = {}
    /\ callUi = NoCallUi
    /\ now = 1
    /\ rpc = [p \in Procs |-> Idle]
    /\ audit = NoCall
    /\ returned = {[pair |-> Two, id |-> 1]}
    /\ last = NoCall

NextList ==
    \/ \E u \in Three : fetchConversations(u)
    \/ \E u \in Three : \E answer \in inflight[u] : setConversations(u, answer)

SpecList == InitList /\ [][NextList]_vars

(* C24: fetchConversations returns exactly the conversations in which the
   user has a participant row and, for each, its most recent messages up to
   the limit, ascending by creation, however many messages are stored. *)
C24_ListsLatestMessages ==
    IsCall("fetchConversations")
    => LET user == last.args[1]
           mine == {c \in DOMAIN conversations : Row(c, user) \in conversation_participants}
       IN  /\ DOMAIN last.val = mine
           /\ \A c \in mine :
                  last.val[c] =
                      LastRows(ByCreation({m \in DOMAIN messages :
                                              messages[m].conversation_id = c}), Limit)

-----------------------------------------------------------------------------
(* Typing state: handleTyping, its timers, stopTyping and their requests *)

MaxTimers == 3
MaxDeletes == 2

(* setTimeout(..., 2000), in seconds. *)
TypingDelay == 2

TypingRow(user, c) == [user_id |-> user, conversation_id |-> c]

(* clearTimeout(typingTimeout): the timer of that id is disarmed, if armed. *)
Cleared(t) == {x \in t.timers : x.id # t.typingTimeout}

(* setTimeout(callback, 2000) and setTypingTimeout(timeout): the callback
   keeps the conversation selected when it was armed. *)
Armed(t, timers, c) ==
    [t EXCEPT !.timers = timers \cup {[id |-> t.nextTimer, due |-> now + TypingDelay,
                                       conversation_id |-> c]},
              !.typingTimeout = t.nextTimer,
              !.nextTimer = t.nextTimer + 1]

(* ChatInterface.handleTyping, called by the input's onChange, up to the
   point where it waits: the timer in typingTimeout is cleared; if isTyping
   is false it is set and the upsert is sent, and the call waits for its
   answer before arming the timer; otherwise the timer is armed at once. *)
keystroke(user) ==
    LET t == typer[user]
        c == ui[user].selectedConversation
    IN
    /\ user \in profiles /\ c # NULL /\ ~t.crashed
    /\ t.nextTimer <= MaxTimers
    /\ IF ~t.isTyping
       THEN /\ t.upserts = 0
            /\ typer' = [typer EXCEPT ![user] =
                            [t EXCEPT !.timers = Cleared(t), !.isTyping = TRUE,
                                      !.upserts = 1, !.lastKey = now, !.focus = TRUE]]
       ELSE typer' = [typer EXCEPT ![user] =
                         Armed([t EXCEPT !.lastKey = now, !.focus = TRUE], Cleared(t), c)]
    /\ last' = Ok("keystroke", <<user, c>>, NULL)
    /\ UNCHANGED <<profiles, audit, ui, newMessage, convList, inflight, callVars, ledgerVars,
                   convVars, msgVars, typing_status, rpc, returned>>

(* .upsert({user_id, conversation_id, is_typing}) names no onConflict: the
   INSERT resolves conflicts on the primary key only, so with the pair's row
   stored it fails on UNIQUE(user_id, conversation_id) and the row stays;
   otherwise the row is stored. *)
UpsertRow(rows, row) == rows \cup {row}

(* The server executes the upsert and the waiting handleTyping call goes on:
   it arms the timer and sets typingTimeout, whatever the answer was.  A
   client that is gone does not go on. *)
serveUpsert(user) ==
    LET t == typer[user]
        c == ui[user].selectedConversation
    IN
    /\ t.upserts > 0
    /\ t.crashed \/ t.nextTimer <= MaxTimers
    /\ typing_status' = UpsertRow(typing_status, TypingRow(user, c))
    /\ typer' = [typer EXCEPT ![user] =
                    IF t.crashed THEN [t EXCEPT !.upserts = 0]
                    ELSE Armed([t EXCEPT !.upserts = 0], t.timers, c)]
    /\ last' = Did(Ok("serveUpsert", <<user, c>>, NULL))
    /\ UNCHANGED <<profiles, audit, ui, newMessage, convList, inflight, callVars, ledgerVars,
                   convVars, msgVars, rpc, returned>>

(* The callback of setTimeout, 2000 ms after it was armed or later:
   setIsTyping(false) and the DELETE of the user's row is sent. *)
timeoutFires(user, x) ==
    LET t == typer[user]
    IN
    /\ x \in t.timers /\ x.due <= now /\ ~t.crashed
    /\ t.deletes < MaxDeletes
    /\ typer' = [typer EXCEPT ![user] =
                    [t EXCEPT !.timers = t.timers \ {x}, !.isTyping = FALSE,
                              !.deletes = t.deletes + 1]]
    /\ last' = Ok("timeoutFires", <<user, x.conversation_id>>, NULL)
    /\ UNCHANGED <<profiles, audit, ui, newMessage, convList, inflight, callVars, ledgerVars,
                   convVars, msgVars, typing_status, rpc, returned>>

(* ChatInterface.stopTyping, called by the input's onBlur and after
   sendMessage by the Enter key and the send button: the timer in
   typingTimeout is cleared, setIsTyping(false), and the DELETE is sent. *)
stopTypingCall(user, blur) ==
    LET t == typer[user]
        c == ui[user].selectedConversation
    IN
    /\ user \in profiles /\ c # NULL /\ ~t.crashed
    /\ t.focus
    /\ t.deletes < MaxDeletes
    /\ typer' = [typer EXCEPT ![user] =
                    [t EXCEPT !.timers = Cleared(t), !.isTyping = FALSE,
                              !.deletes = t.deletes + 1, !.lastKey = NULL,
                              !.focus = ~blur]]
    /\ last' = Ok("stopTyping", <<user, c>>, NULL)
    /\ UNCHANGED <<profiles, audit, ui, newMessage, convList, inflight, callVars, ledgerVars,
                   convVars, msgVars, typing_status, rpc, returned>>

(* The server executes a DELETE ... WHERE user_id = user AND conversation_id
   = c that a timer or stopTyping sent. *)
serveDelete(user) ==
    LET t == typer[user]
        c == ui[user].selectedConversation
    IN
    /\ t.deletes > 0
    /\ typing_status' = typing_status \ {TypingRow(user, c)}
    /\ typer' = [typer EXCEPT ![user].deletes = t.deletes - 1]
    /\ last' = Did(Ok("serveDelete", <<user, c>>, NULL))
    /\ UNCHANGED <<profiles, audit, ui, newMessage, convList, inflight, callVars, ledgerVars,
                   convVars, msgVars, rpc, returned>>

(* The tab is closed or the client crashes: its timers and waiting calls
   are gone; the requests it has sent are still executed. *)
crash(user) ==
    LET t == typer[user]
    IN
    /\ ~t.crashed
    /\ typer' = [typer EXCEPT ![user] =
                    [t EXCEPT !.crashed = TRUE, !.timers = {}, !.focus = FALSE,
                              !.lastKey = NULL]]
    /\ last' = Ok("crash", <<user>>, NULL)
    /\ UNCHANGED <<profiles, audit, ui, newMessage, convList, inflight, callVars, ledgerVars,
                   convVars, msgVars, typing_status, rpc, returned>>

(* Typing: u1 has the direct conversation with u2 open. *)
InitTyping ==
    /\ profiles = Three
    /\ friend_requests = {Request("u1", "u2", "accepted")}
    /\ conversations = (1 :> [type |-> "direct", name |-> << >>, created_by |-> "u1"])
    /\ nextConv = 2
    /\ conversation_participants = {Row(1, "u1"), Row(1, "u2")}
    /\ messages = << >>
    /\ nextMsg = 1
    /\ message_reactions = {}
    /\ typing_status = {}
    /\ ui = [NoSelection EXCEPT !["u1"].selectedConversation = 1]
    /\ newMessage = NoText
    /\ convList = NoList
    /\ inflight = NoFetch
    /\ typer = NoTyping
    /\ calls = << >>
    /\ call_participants = {}
    /\ callUi = NoCallUi
    /\ now = 1
    /\ rpc = [p \in Procs |-> Idle]
    /\ audit = NoCall
    /\ returned = {[pair |-> Two, id |-> 1]}
    /\ last = NoCall

Served == serveUpsert("u1") \/ serveDelete("u1")
Fired == \E x \in typer["u1"].timers : timeoutFires("u1", x)

NextTyping ==
    \/ keystroke("u1")
    \/ \E blur \in BOOLEAN : stopTypingCall("u1", blur)
    \/ Served
    \/ Fired
    \/ crash("u1")
    \/ Tick

SpecTyping == InitTyping /\ [][NextTyping]_vars

(* The server answers every request and an armed timer fires. *)
SpecTypingLive ==
    SpecTyping /\ WF_vars(Served) /\ WF_vars(Fired) /\ WF_vars(Tick)

(* C25: while keystrokes keep arriving less than the debounce delay apart
   and the input keeps focus, the typing_status row of the user is not
   removed, under every order in which the upserts, the deletes and the
   timers are executed. *)
C25_RowKeptWhileTyping ==
    (/\ IsCall("serveDelete")
     /\ TypingRow(last.args[1], last.args[2]) \in last.before.typing_status
     /\ TypingRow(last.args[1], last.args[2]) \notin typing_status)
    => LET t == typer[last.args[1]]
       IN  ~(t.focus /\ t.lastKey # NULL /\ now - t.lastKey < TypingDelay)

(* C26: if the client goes away while its typing_status row exists, the row
   is eventually removed. *)
C26_RowExpiresAfterCrash ==
    (typer["u1"].crashed /\ typing_status # {}) ~> (typing_status = {})

-----------------------------------------------------------------------------
(* Sending from the conversation list *)

(* Sending: the users and conversations of InitLog; u3's client has been
   opened and its first fetchConversations is on its way.  u3 opens the
   group, types and sends; the answers of fetchConversations arrive in any
   order; the creator u1 may remove u3 from the group. *)
InitSend ==
    /\ profiles = Three
    /\ friend_requests = {Request("u1", "u2", "accepted"), Request("u3", "u1", "accepted")}
    /\ conversations = (1 :> [type |-> "direct", name |-> << >>, created_by |-> "u1"])
                       @@ (2 :> [type |-> "group", name |-> <<"g">>, created_by |-> "u1"])
    /\ nextConv = 3
    /\ conversation_participants =
           {Row(1, "u1"), Row(1, "u2"), Row(2, "u1"), Row(2, "u3")}
    /\ messages = << >>
    /\ nextMsg = 1
    /\ message_reactions = {}
    /\ typing_status = {}
    /\ ui = NoSelection
    /\ newMessage = NoText
    /\ convList = NoList
    /\ inflight = [NoFetch EXCEPT !["u3"] = {FetchResult("u3", << >>)}]
    /\ typer = NoTyping
    /\ calls = << >>
    /\ call_participants = {}
    /\ callUi = NoCallUi
    /\ now = 1
    /\ rpc = [p \in Procs |-> Idle]
    /\ audit = NoCall
    /\ returned = {[pair |-> Two, id |-> 1]}
    /\ last = NoCall

NextSend ==
    \/ selectConversation("u3", 2)
    \/ \E value \in {<<"g">>, <<" ", "g">>, <<" ">>} : onChange("u3", value)
    \/ sendMessage("u3")
    \/ \E answer \in inflight["u3"] : setConversations("u3", answer)
    \/ kick_group_member("u1", 2, "u3")
    \/ Tick

SpecSend == InitSend /\ [][NextSend]_vars

(* The number of entries of the list ms that are the message m. *)
Occurrences(ms, m) == Cardinality({i \in DOMAIN ms : ms[i] = m})

(* C27: a sendMessage whose insert fails stores no message, leaves the
   conversation's list without the temporary message and puts the text that
   was sent back in the input; after one that succeeds, the list that the
   refresh of the current log sets holds every stored message of the user
   in a listed conversation exactly once and no temporary message. *)
C27_OptimisticSend ==
    /\ (IsCall("sendMessage") /\ ~last.ok)
       => LET user == last.args[1]
          IN  /\ messages = last.before.messages
              /\ \A c \in DOMAIN convList[user] : \A i \in DOMAIN convList[user][c] :
                     convList[user][c][i] # TempId
              /\ newMessage[user] = JsTrim(last.before.newMessage[user])
    /\ (IsCall("setConversations") /\ last.val = FetchResult(last.args[1], messages))
       => LET user == last.args[1]
          IN  /\ \A c \in DOMAIN convList[user] : \A i \in DOMAIN convList[user][c] :
                     convList[user][c][i] > 0
              /\ \A m \in DOMAIN messages :
                     (messages[m].sender_id = user
                        /\ messages[m].conversation_id \in DOMAIN convList[user])
                     => Occurrences(convList[user][messages[m].conversation_id], m) = 1

-----------------------------------------------------------------------------
(* Membership: the participant rows a client inserts *)

(* INSERT INTO conversation_participants (conversation_id, user_id) sent by
   uid under "Users can join conversations", WITH CHECK (auth.uid() =
   user_id): the conversation must exist and the pair must be new; nothing
   else is asked of the principal. *)
PostParticipant(uid, user_id, c) ==
    LET op == "post participant"
        args == <<uid, user_id, c>>
    IN
    /\ uid \in profiles /\ user_id \in profiles
    /\ IF uid # user_id
       THEN /\ last' = Did(Raise(op, args, "row-level security"))
            /\ UNCHANGED conversation_participants
       ELSE IF c \notin DOMAIN conversations
       THEN /\ last' = Did(Raise(op, args, "foreign key violation"))
            /\ UNCHANGED conversation_participants
       ELSE IF Row(c, user_id) \in conversation_participants
       THEN /\ last' = Did(Raise(op, args, "duplicate key"))
            /\ UNCHANGED conversation_participants
       ELSE /\ conversation_participants' = conversation_participants \cup {Row(c, user_id)}
            /\ last' = Did(Ok(op, args, NULL))
    /\ UNCHANGED <<profiles, audit, clientVars, callVars, ledgerVars, conversations, nextConv,
                   msgVars, typing_status, rpc, returned>>

(* Membership: the users and conversations of InitLog.  Every user sends
   participant rows and messages, and the creator of the group removes
   members. *)
NextJoin ==
    \/ \E uid \in Three, u \in Three, c \in 1..3 : PostParticipant(uid, u, c)
    \/ \E u \in Three, c \in 1..2 : PostMessage(u, u, c, NULL)
    \/ \E m \in Three : kick_group_member("u1", 2, m)

SpecJoin == InitLog /\ [][NextJoin]_vars

(* C28: no participant row is gained through an insert by the principal: an
   INSERT into conversation_participants by a principal who has no row in
   the conversation (a removed member included) is refused and leaves the
   participants as they were, so that only the members the conversations
   were created with send messages to them. *)
C28_NoSelfJoin ==
    /\ IsCall("post participant")
       => (/\ ~last.ok
           /\ conversation_participants = last.before.conversation_participants)
    /\ (IsCall("post message") /\ last.ok)
       => Row(last.args[3], last.args[1]) \in
              {Row(1, "u1"), Row(1, "u2"), Row(2, "u1"), Row(2, "u3")}

-----------------------------------------------------------------------------
(* The conversation list and the log *)

(* Refreshing: the client of u3 as in InitSend.  u3 opens the group, types
   and sends; every send calls fetchConversations, and so does every INSERT
   event of the change feed; the answers arrive in any order.  Nobody else
   changes the log. *)
NextSync ==
    \/ selectConversation("u3", 2)
    \/ onChange("u3", <<"g">>)
    \/ sendMessage("u3")
    \/ fetchConversations("u3")
    \/ \E answer \in inflight["u3"] : setConversations("u3", answer)

SpecSync == InitSend /\ [][NextSync]_vars

(* C29: once every fetchConversations call of a client has been answered,
   in whatever order the answers arrived, the client's list is what
   fetchConversations reads from the log as it is now; the list never goes
   back to an older answer. *)
C29_ListConverges ==
    \A u \in profiles :
        (inflight[u] = {} /\ convList[u] # << >>)
        => convList[u] = FetchResult(u, messages)

-----------------------------------------------------------------------------
(* Reactions: whose name a row carries *)

(* "Users can view reactions in their conversations": the rows of the
   messages of the conversations of auth.uid(). *)
CanViewReaction(uid, r) ==
    /\ r.message_id \in DOMAIN messages
    /\ Row(messages[r.message_id].conversation_id, uid) \in conversation_participants

(* "Users can add reactions to messages in their conversations": WITH CHECK
   message_id IN (the messages of the conversations of auth.uid()).  The
   check does not read the user_id column of the new row. *)
CanAddReaction(uid, r) ==
    CanViewReaction(uid, r)

(* INSERT INTO message_reactions (message_id, user_id, emoji) by the
   principal uid: the foreign key of message_id, the INSERT policy, then
   UNIQUE(message_id, user_id, emoji).  user_id is a uuid column without a
   foreign key. *)
PostReaction(uid, user_id, m, emoji) ==
    LET op == "post reaction"
        args == <<uid, user_id, m, emoji>>
        r == Reaction(m, user_id, emoji)
    IN
    /\ uid \in profiles
    /\ IF m \notin DOMAIN messages
       THEN /\ last' = Did(Raise(op, args, "foreign key violation"))
            /\ UNCHANGED message_reactions
       ELSE IF ~CanAddReaction(uid, r)
       THEN /\ last' = Did(Raise(op, args, "row-level security"))
            /\ UNCHANGED message_reactions
       ELSE IF r \in message_reactions
       THEN /\ last' = Did(Raise(op, args, "duplicate key"))
            /\ UNCHANGED message_reactions
       ELSE /\ message_reactions' = message_reactions \cup {r}
            /\ last' = Did(Ok(op, args, NULL))
    /\ UNCHANGED <<profiles, audit, clientVars, callVars, ledgerVars, convVars, messages,
                   nextMsg, typing_status, rpc, returned>>

(* DELETE FROM message_reactions WHERE id = the id of row r, by the principal
   uid: "Users can delete their own reactions" (USING auth.uid() = user_id)
   and, for the WHERE clause, the SELECT policy.  A row the policies hide is
   not deleted and no error is raised. *)
DeleteReaction(uid, r) ==
    LET op == "delete reaction"
        args == <<uid, r>>
    IN
    /\ uid \in profiles
    /\ r \in message_reactions
    /\ message_reactions' =
           IF uid = r.user_id /\ CanViewReaction(uid, r)
           THEN message_reactions \ {r}
           ELSE message_reactions
    /\ last' = Did(Ok(op, args, NULL))
    /\ UNCHANGED <<profiles, audit, clientVars, callVars, ledgerVars, convVars, messages,
                   nextMsg, typing_status, rpc, returned>>

NextAttribution ==
    \/ \E uid \in Three, user_id \in Three, m \in 1..3 :
           PostReaction(uid, user_id, m, "+1")
    \/ \E uid \in Three : \E r \in message_reactions : DeleteReaction(uid, r)

SpecAttribution == InitReactions /\ [][NextAttribution]_vars

(* C30: every row of message_reactions carries as user_id the principal who
   inserted it, so that a participant of a conversation cannot store a
   reaction in the name of another user, and a principal removes only rows
   whose user_id is the principal's own. *)
C30_ReactionsCarryTheirInserter ==
    /\ IsCall("post reaction")
           => \A r \in message_reactions \ last.before.message_reactions :
                  r.user_id = last.args[1]
    /\ IsCall("delete reaction")
           => \A r \in last.before.message_reactions \ message_reactions :
                  r.user_id = last.args[1]

=============================================================================
